---- MODULE Spec2Model ----
(***************************************************************************)
(* Verification model of netbox-provisioner (backend crate).               *)
(*                                                                         *)
(* The module holds one state machine per component of the backend:        *)
(*   - the gap finder (device/ros/mod.rs, GapFinder / GapIterator),        *)
(*   - the cable-path resolver (topology/access/cable.rs),                 *)
(*   - the device synthesis pipeline (L2Setup::new and                     *)
(*     BaseDeviceDataTarget::generate_from),                               *)
(*   - the topology store (topology/mod.rs, TopologyHolder).               *)
(* Every component has its own variables, initial predicate and            *)
(* next-state relation; a specification runs one component and leaves the  *)
(* variables of the others at their idle values.                           *)
(***************************************************************************)
EXTENDS Integers, Sequences, FiniteSets, TLC

VARIABLES
    \* ---- gap finder ----
    reserved_chunks,   \* GapFinder.reserved_chunks : BTreeMap<V, i32>
    calls,             \* history: the chunks passed to GapFinder::reserve, in call order
    excluded,          \* history: the addresses the reserve_ipv4* calls asked to exclude
    v4Calls,           \* history: number of reserve_ipv4* calls made
    gapWindow,         \* the window (start, end) handed to gaps()
    gapNet,            \* the network handed to find_gaps_ipv4()
    gapsOut,           \* the ranges the GapIterator yielded, in order
    gapPhase           \* "building" | "collected" | "panicked"

VARIABLES
    \* ---- topology store ----
    now,        \* the clock, in seconds (tokio::time::Instant)
    data,       \* TopologyHolder.data: 0 is None, otherwise the published Arc<Topology>
    heap,       \* the Arc<Topology> allocations; a snapshot handle is an index
    lock,       \* owner of the holder's Mutex: -1 when free, otherwise a task
    pc,         \* where each task stands (task 0 is main, the others are readers)
    bld,        \* each task's local value inside build_topology
    seen,       \* what each reader's freshness check observed
    held,       \* the snapshot handle each reader got out of topo_lock (0: none)
    refreshes   \* number of build_topology calls started

VARIABLES
    \* ---- cable-path resolver ----
    cables,      \* Topology.cables : CableId -> Cable {port_a, port_b}
    rear_port,   \* FrontPort.rear_port : Option<RearPortId>
    front_port,  \* RearPort.front_port : Option<FrontPortId>
    start_port,  \* the port walk_cable was called on
    visited,     \* the CablePaths handed to the visitor, in call order
    connected,   \* the result of connected_interfaces
    walkPhase    \* "ready" | "walked" | "connected" | "overflow"

VARIABLES
    \* ---- device synthesis ----
    device,         \* the DeviceAccess generate_from is called with
    l2,             \* L2Setup.planes as built by L2Setup::new
    target,         \* the BaseDeviceDataTarget (self of generate_from)
    mapped_planes,  \* the local Vec<(InterfaceAccess, MappedPlane)>
    genPc,          \* position inside generate_from / generate_cfg
    genResult,      \* what generate_from returned
    ipResult,       \* what setup_ip_addresses returned
    ran,            \* history: the steps of generate_from that were run
    rendered        \* the target generate_mutations read, once it did

VARIABLES
    \* ---- address inventory of build_topology / TopologyBuilder::build ----
    buildMode,               \* which of the two builds the snapshot
    prefix_list,             \* data.prefix_list: the prefixes, the id is the position
    ip_range_list,           \* data.ip_range_list: is_dhcp, start_address, end_address
    ip_address_list,         \* data.ip_address_list: the addresses
    prefix_idx,              \* HashMap<IpNet, IpPrefixId>
    ip_prefixes,             \* HashMap<IpPrefixId, IpPrefixData>
    ip_ranges,               \* HashMap<IpRangeId, IpRangeData>
    ip_addresses,            \* HashMap<IpAddressId, IpAddressData>
    children_prefix,         \* HashMap<IpPrefixId, Vec<IpPrefixId>>
    ranges_of_prefix,        \* HashMap<IpPrefixId, Vec<IpRangeId>>
    ip_addresses_of_prefix,  \* HashMap<IpPrefixId, Vec<IpAddressId>>
    buildPc                  \* the loop of the build that runs next

gapVars == <<reserved_chunks, calls, excluded, v4Calls, gapWindow, gapNet, gapsOut, gapPhase>>
topoVars == <<now, data, heap, lock, pc, bld, seen, held, refreshes>>

cableVars == <<cables, rear_port, front_port, start_port, visited, connected, walkPhase>>

devVars == <<device, l2, target, mapped_planes, genPc, genResult, ipResult, ran, rendered>>

ipamVars == <<buildMode, prefix_list, ip_range_list, ip_address_list, prefix_idx,
              ip_prefixes, ip_ranges, ip_addresses, children_prefix, ranges_of_prefix,
              ip_addresses_of_prefix, buildPc>>

vars == <<gapVars, topoVars, cableVars, devVars, ipamVars>>

\* what an action of one component leaves alone in the others
notGap == <<topoVars, cableVars, devVars, ipamVars>>
notTopo == <<gapVars, cableVars, devVars, ipamVars>>
notCable == <<gapVars, topoVars, devVars, ipamVars>>
notDev == <<gapVars, topoVars, cableVars, ipamVars>>
notIpam == <<gapVars, topoVars, cableVars, devVars>>

(***************************************************************************)
(* Generic helpers                                                         *)
(***************************************************************************)
Min(a, b) == IF a <= b THEN a ELSE b
Max(a, b) == IF a >= b THEN a ELSE b

SetMin(S) == CHOOSE x \in S : \A y \in S : x <= y
SetMax(S) == CHOOSE x \in S : \A y \in S : x >= y

RECURSIVE SortedSeq(_)
SortedSeq(S) == IF S = {} THEN <<>>
                ELSE LET x == SetMin(S) IN <<x>> \o SortedSeq(S \ {x})

SeqRange(s) == {s[i] : i \in 1..Len(s)}

(***************************************************************************)
(* Gap finder                                                              *)
(***************************************************************************)
\* Largest key of the ordered domain V of the generic GapFinder<V>.
MaxKey == 4
\* Largest address of the scaled-down IPv4 space (plays u32::MAX).
MaxAddr == 7
\* Number of reserve calls made on one finder.
MaxReserve == 2

Keys == 0..MaxKey
Addrs == 0..MaxAddr

EmptyMap == [k \in {} |-> 0]

\* *self.reserved_chunks.entry(k).or_insert(0) += d
BumpOverwrite(m, k, d) == [x \in DOMAIN m \cup {k} |-> IF x = k THEN d ELSE m[x]]
Bump(m, k, d) ==
    [x \in DOMAIN m \cup {k} |->
        IF x = k THEN (IF k \in DOMAIN m THEN m[k] ELSE 0) + d ELSE m[x]]

\* GapFinder::reserve(chunk.start .. chunk.end)
ReserveChunk(m, s, e) == Bump(Bump(m, s, 1), e, -1)

\* Ord::clamp(self, min, max); it asserts min <= max
ClampPanics(lo, hi) == lo > hi
ClampNone(v, lo, hi) == v
Clamp(v, lo, hi) == IF v < lo THEN lo ELSE IF v > hi THEN hi ELSE v

\* GapFinder::gaps: the iterator's initial fields
GapIteratorInit(m, start, end) ==
    [current_value |-> 0, last_key |-> start, start |-> start, end |-> end,
     rest |-> SortedSeq(DOMAIN m)]

\* the test `self.current_value <= 0` of GapIterator::next
DepthFreeBelowTwo(current_value) == current_value <= 1
DepthFree(current_value) == current_value <= 0

\* GapIterator::next: one call. kind is "some" (item yielded), "none" or "panic".
RECURSIVE GapIteratorNext(_, _)
GapIteratorNext(it, m) ==
    IF it.rest # <<>>
    THEN IF ClampPanics(it.start, it.end)
         THEN [it |-> it, kind |-> "panic", item |-> <<0, 0>>]
         ELSE LET key == Head(it.rest)
                  current_key == Clamp(key, it.start, it.end)
                  found == DepthFree(it.current_value) /\ current_key > it.last_key
                  it1 == [it EXCEPT !.current_value = @ + m[key],
                                    !.last_key = current_key,
                                    !.rest = Tail(it.rest)]
              IN IF found
                 THEN [it |-> it1, kind |-> "some", item |-> <<it.last_key, current_key>>]
                 ELSE GapIteratorNext(it1, m)
    ELSE IF DepthFree(it.current_value) /\ it.end > it.last_key
         THEN [it |-> [it EXCEPT !.last_key = it.end], kind |-> "some",
               item |-> <<it.last_key, it.end>>]
         ELSE [it |-> it, kind |-> "none", item |-> <<0, 0>>]

\* .collect::<Vec<_>>() of the iterator: next() until it returns None
RECURSIVE CollectFrom(_, _)
CollectFrom(it, m) ==
    LET r == GapIteratorNext(it, m)
    IN IF r.kind = "some"
       THEN LET tl == CollectFrom(r.it, m)
            IN [out |-> <<r.item>> \o tl.out, panicked |-> tl.panicked]
       ELSE [out |-> <<>>, panicked |-> (r.kind = "panic")]

CollectGaps(m, start, end) == CollectFrom(GapIteratorInit(m, start, end), m)

\* Ipv4Addr::saturating_add(1) / saturating_sub(1)
SatAdd(a) == Min(a + 1, MaxAddr)
SatSub(a) == Max(a - 1, 0)

\* Ipv4Net: aligned blocks of 2^k addresses; network() and broadcast()
NetSizes == {1, 2, 4, 8, 16}
Nets == {[network |-> n, broadcast |-> n + sz - 1] :
            <<n, sz>> \in {p \in Addrs \X NetSizes : p[1] % p[2] = 0 /\ p[1] + p[2] - 1 <= MaxAddr}}

\* reserve_ipv4(ip): self.reserve(ip.saturating_sub(1)..ip.saturating_add(1))
PointChunkHalfOpen(ip) == <<ip, SatAdd(ip)>>
PointChunk(ip) == <<SatSub(ip), SatAdd(ip)>>
\* reserve_ipv4_range(start..end)
RangeChunk(a, b) == <<SatSub(a), SatAdd(b)>>
\* reserve_ipv4_net(net): reserve_ipv4_range(net.network()..net.broadcast())
NetChunk(n) == RangeChunk(n.network, n.broadcast)
\* find_gaps_ipv4(net): gaps(network+1 .. broadcast-1)
HostWindow(n) == <<SatAdd(n.network), SatSub(n.broadcast)>>

GapInit ==
    /\ reserved_chunks = EmptyMap
    /\ calls = <<>>
    /\ excluded = {}
    /\ v4Calls = 0
    /\ gapWindow = <<0, 0>>
    /\ gapNet = [network |-> 0, broadcast |-> 0]
    /\ gapsOut = <<>>
    /\ gapPhase = "building"

\* GapFinder::reserve(s..e)
Reserve(s, e) ==
    /\ gapPhase = "building"
    /\ Len(calls) < MaxReserve
    /\ reserved_chunks' = ReserveChunk(reserved_chunks, s, e)
    /\ calls' = Append(calls, <<s, e>>)
    /\ UNCHANGED <<excluded, v4Calls, gapWindow, gapNet, gapsOut, gapPhase>>
    /\ UNCHANGED notGap

\* GapFinder::gaps(start..end).collect()
Gaps(start, end) ==
    /\ gapPhase = "building"
    /\ LET r == CollectGaps(reserved_chunks, start, end)
       IN /\ gapsOut' = r.out
          /\ gapPhase' = IF r.panicked THEN "panicked" ELSE "collected"
    /\ gapWindow' = <<start, end>>
    /\ UNCHANGED <<reserved_chunks, calls, excluded, v4Calls, gapNet>>
    /\ UNCHANGED notGap

ReserveV4(chunk, addrs) ==
    /\ gapPhase = "building"
    /\ v4Calls < MaxReserve
    /\ reserved_chunks' = ReserveChunk(reserved_chunks, chunk[1], chunk[2])
    /\ excluded' = excluded \cup addrs
    /\ v4Calls' = v4Calls + 1
    /\ UNCHANGED <<calls, gapWindow, gapNet, gapsOut, gapPhase>>
    /\ UNCHANGED notGap

\* GapFinder::<Ipv4Addr>::reserve_ipv4(ip)
ReserveIpv4(ip) == ReserveV4(PointChunk(ip), {ip})

\* GapFinder::<Ipv4Addr>::reserve_ipv4_range(a..b)
ReserveIpv4Range(a, b) == ReserveV4(RangeChunk(a, b), a..b)

\* GapFinder::<Ipv4Addr>::reserve_ipv4_net(net)
ReserveIpv4Net(n) == ReserveV4(NetChunk(n), n.network..n.broadcast)

\* GapFinder::<Ipv4Addr>::find_gaps_ipv4(net).collect()
FindGapsIpv4(n) ==
    /\ gapPhase = "building"
    /\ LET w == HostWindow(n)
           r == CollectGaps(reserved_chunks, w[1], w[2])
       IN /\ gapsOut' = r.out
          /\ gapPhase' = IF r.panicked THEN "panicked" ELSE "collected"
          /\ gapWindow' = w
    /\ gapNet' = n
    /\ UNCHANGED <<reserved_chunks, calls, excluded, v4Calls>>
    /\ UNCHANGED notGap

GapIdle == GapInit

GapNext ==
    \/ \E s \in Keys, e \in Keys : s < e /\ Reserve(s, e)
    \/ \E start \in Keys, end \in Keys : start <= end /\ Gaps(start, end)

GapV4Next ==
    \/ \E ip \in Addrs : ReserveIpv4(ip)
    \/ \E a \in Addrs, b \in Addrs : a <= b /\ ReserveIpv4Range(a, b)
    \/ \E n \in Nets : ReserveIpv4Net(n)
    \/ \E n \in Nets : FindGapsIpv4(n)


(***************************************************************************)
(* Gap finder: properties                                                  *)
(***************************************************************************)
RECURSIVE ReserveAll(_, _)
ReserveAll(m, chunks) ==
    IF chunks = <<>> THEN m
    ELSE ReserveAll(ReserveChunk(m, Head(chunks)[1], Head(chunks)[2]), Tail(chunks))

InSomeGap(x) == \E i \in 1..Len(gapsOut) : gapsOut[i][1] <= x /\ x < gapsOut[i][2]
InSomeReservation(x) == \E i \in 1..Len(calls) : calls[i][1] <= x /\ x < calls[i][2]

\* C1: for reserved intervals [s,e) with s<e and a window [start,end) with
\* start<=end, the ranges yielded by gaps(start..end) are non-empty, pairwise
\* disjoint, strictly ascending, inside the window, and together with the
\* reserved intervals (clipped to the window) they cover the window; a point of
\* the window is in a yielded range exactly when no reservation covers it.
C1_GapTotality ==
    gapPhase = "collected" =>
        /\ \A i \in 1..Len(gapsOut) : gapsOut[i][1] < gapsOut[i][2]
        /\ \A i \in 1..Len(gapsOut) :
              gapWindow[1] <= gapsOut[i][1] /\ gapsOut[i][2] <= gapWindow[2]
        /\ \A i \in 1..(Len(gapsOut) - 1) : gapsOut[i][2] <= gapsOut[i + 1][1]
        /\ \A x \in gapWindow[1]..(gapWindow[2] - 1) : InSomeGap(x) \/ InSomeReservation(x)
        /\ \A x \in gapWindow[1]..(gapWindow[2] - 1) : ~(InSomeGap(x) /\ InSomeReservation(x))

\* C1 witness: two reservations, one of them reaching over the window's end,
\* and two free ranges yielded.
C1_Witness ==
    /\ gapPhase = "collected"
    /\ Len(calls) = 2
    /\ Len(gapsOut) = 2
    /\ \E i \in 1..2 : calls[i][2] > gapWindow[2]

\* C9: every range yielded by find_gaps_ipv4(N), read as the inclusive span
\* r.start..=r.end, lies within network+1..=broadcast-1 and holds no address
\* that a reserve_ipv4 / reserve_ipv4_range / reserve_ipv4_net call excluded.
C9_PoolRangesFree ==
    gapPhase = "collected" =>
        \A i \in 1..Len(gapsOut) :
            \A x \in gapsOut[i][1]..gapsOut[i][2] :
                /\ gapNet.network + 1 <= x /\ x <= gapNet.broadcast - 1
                /\ x \notin excluded

\* C9 witness: two calls excluded addresses of the host span and two ranges
\* were yielded around them.
C9_Witness ==
    /\ gapPhase = "collected"
    /\ v4Calls = 2
    /\ Len(gapsOut) = 2
    /\ \E x \in excluded : gapNet.network + 1 <= x /\ x <= gapNet.broadcast - 1

\* C10: the sequence of free ranges yielded by gaps is the same for every
\* order in which the reserve calls were made.
C10_OrderIndependent ==
    gapPhase = "collected" =>
        \A p \in Permutations(1..Len(calls)) :
            CollectGaps(ReserveAll(EmptyMap, [i \in 1..Len(calls) |-> calls[p[i]]]),
                        gapWindow[1], gapWindow[2]).out = gapsOut

\* C10 witness: two different reservations sharing a boundary, made in
\* descending order, and a free range yielded.
C10_Witness ==
    /\ gapPhase = "collected"
    /\ Len(calls) = 2
    /\ calls[1][1] = calls[2][2]
    /\ Len(gapsOut) >= 1

\* calls with the call at index i left out
DropCall(i) == [k \in 1..(Len(calls) - 1) |-> IF k < i THEN calls[k] ELSE calls[k + 1]]
\* number of reserve calls whose interval covers x
Depth(x) == Cardinality({i \in 1..Len(calls) : calls[i][1] <= x /\ x < calls[i][2]})

\* C11: reserving an interval a second time, on top of any other
\* reservations, yields the same gaps output as reserving it once, for every
\* window: the output is unchanged when one of two equal reserve calls is left
\* out, and when any interval already reserved is reserved once more; and an
\* address covered by two overlapping reservations is in no yielded range.
C11_Idempotent ==
    gapPhase = "collected" =>
        /\ \A i \in 1..Len(calls) :
              (\E j \in 1..Len(calls) : j # i /\ calls[j] = calls[i]) =>
                  CollectGaps(ReserveAll(EmptyMap, DropCall(i)),
                              gapWindow[1], gapWindow[2]).out = gapsOut
        /\ \A i \in 1..Len(calls) :
              CollectGaps(ReserveChunk(reserved_chunks, calls[i][1], calls[i][2]),
                          gapWindow[1], gapWindow[2]).out = gapsOut
        /\ \A x \in gapWindow[1]..(gapWindow[2] - 1) : Depth(x) >= 2 => ~InSomeGap(x)

\* C11 witness: the same interval reserved twice, every address of it covered
\* by both reservations, and a window reaching over both of its ends.
C11_Witness ==
    /\ gapPhase = "collected"
    /\ Len(calls) = 2
    /\ calls[1] = calls[2]
    /\ gapWindow[1] < calls[1][1] /\ calls[1][2] < gapWindow[2]
    /\ Len(gapsOut) = 2

(***************************************************************************)
(* Topology store                                                          *)
(***************************************************************************)
\* Time-to-live of a snapshot, in seconds: Duration::from_secs(10).
TTL == 10
\* The clock stops here.
MaxTime == 15
\* Seconds between two readings of the clock.
TimeStep == 5
\* Number of build_topology calls one run may start.
MaxRefresh == 2

Main == 0
Readers == {1, 2}
Tasks == {Main} \cup Readers

NoBuild == [fetch_time |-> 0, stage |-> "none"]
NoSeen == [some |-> FALSE, age |-> 0]

\* topo_lock, lines 46-54: the freshness test made under the lock
OutdatedAtOrAfter(d, h, t) == IF d # 0 THEN t - h[d].fetch_time >= TTL ELSE TRUE
Outdated(d, h, t) == IF d # 0 THEN t - h[d].fetch_time > TTL ELSE TRUE

\* fetch, line 39: data_ref.lock().await.replace(Arc::new(value))
ReplaceInPlace(h, d, value) ==
    IF d # 0 THEN [heap |-> [h EXCEPT ![d] = value], data |-> d]
    ELSE [heap |-> Append(h, value), data |-> Len(h) + 1]
Replace(h, d, value) == [heap |-> Append(h, value), data |-> Len(h) + 1]

TopoInit ==
    /\ now = 0
    /\ data = 0
    /\ heap = <<>>
    /\ lock = -1
    /\ pc \in {[t \in Tasks |-> IF t = Main THEN m ELSE "idle"] : m \in {"boot", "serving"}}
    /\ bld = [t \in Tasks |-> NoBuild]
    /\ seen = [t \in Tasks |-> NoSeen]
    /\ held = [t \in Tasks |-> 0]
    /\ refreshes = 0

TopoIdle ==
    /\ now = 0
    /\ data = 0
    /\ heap = <<>>
    /\ lock = -1
    /\ pc = [t \in Tasks |-> "idle"]
    /\ bld = [t \in Tasks |-> NoBuild]
    /\ seen = [t \in Tasks |-> NoSeen]
    /\ held = [t \in Tasks |-> 0]
    /\ refreshes = 0

\* time passes
Tick ==
    /\ now + TimeStep <= MaxTime
    /\ now' = now + TimeStep
    /\ UNCHANGED <<data, heap, lock, pc, bld, seen, held, refreshes>>
    /\ UNCHANGED notTopo

\* a request handler calls topo_lock (devices, devices_by_id, all_devices, ...)
CallTopoLock(r) ==
    /\ pc[Main] = "serving"
    /\ pc[r] = "idle"
    /\ pc' = [pc EXCEPT ![r] = "check"]
    /\ UNCHANGED <<now, data, heap, lock, bld, seen, held, refreshes>>
    /\ UNCHANGED notTopo

\* topo_lock, lines 46-55: lock, test the age of the snapshot, unlock
CheckOutdated(r) ==
    /\ pc[r] = "check"
    /\ lock = -1
    /\ seen' = [seen EXCEPT ![r] =
                  IF data # 0 THEN [some |-> TRUE, age |-> now - heap[data].fetch_time]
                  ELSE NoSeen]
    /\ pc' = [pc EXCEPT ![r] = IF Outdated(data, heap, now) THEN "fetch" ELSE "relock"]
    /\ UNCHANGED <<now, data, heap, lock, bld, held, refreshes>>
    /\ UNCHANGED notTopo

\* build_topology, line 163: fetch_time = Instant::now(), then the inventory is queried
BuildStart(t) ==
    /\ pc[t] \in {"fetch", "boot"}
    /\ refreshes < MaxRefresh
    /\ refreshes' = refreshes + 1
    /\ bld' = [bld EXCEPT ![t] = [fetch_time |-> now, stage |-> "fetching"]]
    /\ pc' = [pc EXCEPT ![t] = IF t = Main THEN "boot_building" ELSE "building"]
    /\ UNCHANGED <<now, data, heap, lock, seen, held>>
    /\ UNCHANGED notTopo

\* build_topology returns Ok(value): the snapshot is complete
BuildOk(t) ==
    /\ pc[t] \in {"building", "boot_building"}
    /\ bld' = [bld EXCEPT ![t].stage = "complete"]
    /\ pc' = [pc EXCEPT ![t] = IF t = Main THEN "boot_publish" ELSE "publish"]
    /\ UNCHANGED <<now, data, heap, lock, seen, held, refreshes>>
    /\ UNCHANGED notTopo

\* a failed build that takes the published snapshot away
BuildErrDropsSnapshot(t) ==
    /\ pc[t] \in {"building", "boot_building"}
    /\ bld' = [bld EXCEPT ![t] = NoBuild]
    /\ pc' = [pc EXCEPT ![t] = IF t = Main THEN "exited" ELSE "relock"]
    /\ data' = 0
    /\ UNCHANGED <<now, heap, lock, seen, held, refreshes>>
    /\ UNCHANGED notTopo

\* build_topology returns Err: topo_lock logs it, main returns it
BuildErr(t) ==
    /\ pc[t] \in {"building", "boot_building"}
    /\ bld' = [bld EXCEPT ![t] = NoBuild]
    /\ pc' = [pc EXCEPT ![t] = IF t = Main THEN "exited" ELSE "relock"]
    /\ UNCHANGED <<now, data, heap, lock, seen, held, refreshes>>
    /\ UNCHANGED notTopo

\* fetch, line 39: lock, replace the pointer, unlock
Publish(t) ==
    /\ pc[t] \in {"publish", "boot_publish"}
    /\ lock = -1
    /\ LET r == Replace(heap, data, [fetch_time |-> bld[t].fetch_time,
                                     complete |-> (bld[t].stage = "complete"),
                                     serial |-> Len(heap) + 1])
       IN /\ heap' = r.heap
          /\ data' = r.data
    /\ bld' = [bld EXCEPT ![t] = NoBuild]
    /\ pc' = [pc EXCEPT ![t] = IF t = Main THEN "serving" ELSE "relock"]
    /\ UNCHANGED <<now, lock, seen, held, refreshes>>
    /\ UNCHANGED notTopo

\* topo_lock, line 62: self.data.lock().await, the guard is returned
Relock(r) ==
    /\ pc[r] = "relock"
    /\ lock = -1
    /\ lock' = r
    /\ pc' = [pc EXCEPT ![r] = "holding"]
    /\ seen' = [seen EXCEPT ![r] = NoSeen]
    /\ UNCHANGED <<now, data, heap, bld, held, refreshes>>
    /\ UNCHANGED notTopo

\* devices / devices_by_id: .as_ref().cloned() and the guard is dropped
CloneAndUnlock(r) ==
    /\ pc[r] = "holding"
    /\ lock = r
    /\ held' = [held EXCEPT ![r] = data]
    /\ lock' = -1
    /\ pc' = [pc EXCEPT ![r] = "idle"]
    /\ UNCHANGED <<now, data, heap, bld, seen, refreshes>>
    /\ UNCHANGED notTopo

TopoNext ==
    \/ Tick
    \/ \E r \in Readers : CallTopoLock(r)
    \/ \E r \in Readers : CheckOutdated(r)
    \/ \E t \in Tasks : BuildStart(t)
    \/ \E t \in Tasks : BuildOk(t)
    \/ \E t \in Tasks : BuildErr(t)
    \/ \E t \in Tasks : Publish(t)
    \/ \E r \in Readers : Relock(r)
    \/ \E r \in Readers : CloneAndUnlock(r)

(***************************************************************************)
(* Properties of the topology store                                        *)
(***************************************************************************)
Refreshing(t) == pc[t] \in {"building", "boot_building", "publish", "boot_publish"}
InTopoLock(r) == pc[r] # "idle"

\* C7: a refresh builds the whole snapshot without holding the lock and
\* then replaces the pointer in one step: every published snapshot and every
\* handle a reader holds is a complete snapshot, no task holds the lock while
\* it builds, and no step changes the contents of a snapshot that was
\* published before, so a handle taken earlier keeps showing the same
\* contents after any later refresh.
C7_AtomicSwap ==
    /\ [](/\ \A i \in 1..Len(heap) : heap[i].complete
          /\ data \in 0..Len(heap)
          /\ \A t \in Tasks : Refreshing(t) => lock # t
          /\ \A r \in Readers : held[r] \in 0..Len(heap))
    /\ [][/\ Len(heap') >= Len(heap)
          /\ \A i \in 1..Len(heap) : heap'[i] = heap[i]]_vars

\* C7 witness: a reader holds a handle to the first snapshot while a later
\* refresh has published a second one.
C7_Witness ==
    /\ \E r \in Readers : held[r] = 1
    /\ data = 2
    /\ heap[1].fetch_time # heap[2].fetch_time

\* C8 as stated: a refresh is started only inside a reader's topo_lock
\* call, and the published snapshot changes only while some reader is inside
\* topo_lock.
C8_Original ==
    [][/\ refreshes' # refreshes =>
              \E r \in Readers : pc[r] = "fetch" /\ pc'[r] = "building"
       /\ data' # data => \E r \in Readers : InTopoLock(r)]_vars

\* C8 amended: apart from the initial fetch main makes at startup, a
\* refresh is started only inside a reader's topo_lock call and only when its
\* check saw no snapshot or a snapshot older than 10 s; a reader whose check
\* saw a snapshot of age <= 10 s starts no refresh; and the published
\* snapshot changes only at the end of main's initial fetch or while a reader
\* is inside topo_lock.
C8_LazyRefresh ==
    /\ [](\A r \in Readers :
            pc[r] \in {"fetch", "building", "publish"} =>
                (seen[r].some => seen[r].age > TTL))
    /\ [][/\ refreshes' # refreshes =>
              \/ pc[Main] = "boot" /\ pc'[Main] = "boot_building"
              \/ \E r \in Readers :
                    /\ pc[r] = "fetch" /\ pc'[r] = "building"
                    /\ (seen[r].some => seen[r].age > TTL)
          /\ \A r \in Readers :
                (pc[r] = "check" /\ pc'[r] # "check" /\ data # 0
                    /\ now - heap[data].fetch_time <= TTL) => pc'[r] = "relock"
          /\ data' # data =>
              \/ pc[Main] = "boot_publish"
              \/ \E r \in Readers : pc[r] = "publish"]_vars

\* C8 witness: one reader checked a snapshot exactly 10 s old and went on
\* without a refresh, another checked a snapshot older than that and is
\* building.
C8_Witness ==
    /\ data # 0
    /\ \E r \in Readers : pc[r] = "relock" /\ seen[r].some /\ seen[r].age = TTL
    /\ \E r \in Readers : pc[r] = "building" /\ seen[r].some /\ seen[r].age > TTL

\* C21: the fetch time of the published snapshot never decreases: no publish
\* step replaces a snapshot by one whose build started earlier.
C21_FetchTimeMonotone ==
    [][(data # 0 /\ data' # data) =>
          heap'[data'].fetch_time >= heap[data].fetch_time]_vars

\* C22: at most one refresh is in flight at any time: of the readers that
\* saw the same missing or stale snapshot only one starts build_topology.
C22_OneRefreshInFlight ==
    Cardinality({t \in Tasks : Refreshing(t)}) <= 1
\* a reader starts a refresh only after its own check found the snapshot
\* missing or stale
C22_RefreshOnlyWhenSeenStale ==
    \A r \in Readers : Refreshing(r) => (seen[r].some => seen[r].age > TTL)

\* C27: when the build_topology of a reader's refresh fails, that step
\* leaves the published snapshot and every snapshot as they were, the reader
\* goes on to take the lock and return the guard (the error goes nowhere
\* else), and what a reader gets from the guard is the snapshot published at
\* that moment, or none if none is published.
C27_FailedRefreshKeepsSnapshot ==
    [][/\ \A r \in Readers :
             (pc[r] = "building" /\ pc'[r] # "building" /\ bld'[r] = NoBuild) =>
                 /\ data' = data /\ heap' = heap
                 /\ pc'[r] = "relock"
       /\ \A r \in Readers :
             (pc[r] = "holding" /\ pc'[r] = "idle") => held'[r] = data]_vars

\* C27 witness: a reader saw the only snapshot stale, its refresh failed
\* (no second snapshot exists), and it is about to return the stale snapshot,
\* which is still the published one.
C27_Witness ==
    \E r \in Readers :
        /\ pc[r] = "relock"
        /\ seen[r].some /\ seen[r].age > TTL
        /\ Len(heap) = 1 /\ data = 1
\* a reader whose refresh failed when nothing was ever loaded gets none
C27_NoneReturned ==
    \E r \in Readers : pc[r] = "idle" /\ held[r] = 0 /\ refreshes > 0 /\ data = 0 /\ now > 0

(***************************************************************************)
(* Cable-path resolver                                                     *)
(***************************************************************************)
\* Largest number of terminations on the fan-out side of a cable.
MaxFanOut == 2

None == "none"
Interfaces == {"I1", "I2"}
FrontPorts == {"F1", "F2"}
RearPorts == {"R1", "R2"}
CablePorts == Interfaces \cup FrontPorts \cup RearPorts
CableIds == {"c1", "c2"}

\* the order in which the terminations of one cable side are listed
PortOrder == <<"I1", "I2", "F1", "F2", "R1", "R2">>
SideSeq(S) == SelectSeq(PortOrder, LAMBDA x : x \in S)

NoCable == [port_a |-> <<>>, port_b |-> <<>>]
CableShapes ==
    {NoCable} \cup
    {[port_a |-> <<a>>, port_b |-> SideSeq(B)] :
        a \in CablePorts,
        B \in {T \in SUBSET CablePorts : Cardinality(T) <= MaxFanOut}}

Ends(c) == {c.port_a[i] : i \in 1..Len(c.port_a)} \cup {c.port_b[i] : i \in 1..Len(c.port_b)}
Contains(side, port) == \E i \in 1..Len(side) : side[i] = port

\* every termination is on one side of one cable
WellCabled(cs) ==
    /\ \A c \in CableIds : Len(cs[c].port_a) + Len(cs[c].port_b) = Cardinality(Ends(cs[c]))
    /\ \A c, d \in CableIds : c # d => Ends(cs[c]) \cap Ends(cs[d]) = {}
    /\ cs["c2"] # NoCable => cs["c1"] # NoCable

\* build_topology: every front port names its rear port, and a rear port
\* names one of the front ports that name it
PassThroughs ==
    {pt \in [rear_port : [FrontPorts -> RearPorts \cup {None}],
             front_port : [RearPorts -> FrontPorts \cup {None}]] :
        \A r \in RearPorts :
            LET fronts == {f \in FrontPorts : pt.rear_port[f] = r}
            IN IF fronts = {} THEN pt.front_port[r] = None
               ELSE pt.front_port[r] \in fronts}

\* build_topology: port.cable = Some(cable_id) for every termination
PortCable(port) ==
    IF \E c \in CableIds : port \in Ends(cables[c])
    THEN CHOOSE c \in CableIds : port \in Ends(cables[c])
    ELSE None

\* connections_from_port without the chained port_b -> port_a half
ConnectionsFromSideA(c, port) ==
    LET cable_data == cables[c]
        fars == IF Contains(cable_data.port_a, port) THEN cable_data.port_b ELSE <<>>
    IN [i \in 1..Len(fars) |-> [near |-> port, far |-> fars[i], cable |-> c]]

\* CableAccess::connections_from_port
ConnectionsFromPort(c, port) ==
    LET cable_data == cables[c]
        fars == (IF Contains(cable_data.port_a, port) THEN cable_data.port_b ELSE <<>>)
                \o (IF Contains(cable_data.port_b, port) THEN cable_data.port_a ELSE <<>>)
    IN [i \in 1..Len(fars) |-> [near |-> port, far |-> fars[i], cable |-> c]]

\* CablePortAccess::next_device_port_id
NextDevicePortId(port) ==
    IF port \in FrontPorts THEN rear_port[port]
    ELSE IF port \in RearPorts THEN front_port[port]
    ELSE None

\* CablePortAccess::attached_cable_segments
AttachedCableSegments(port) ==
    IF PortCable(port) # None THEN ConnectionsFromPort(PortCable(port), port) ELSE <<>>

NoPaths == [paths |-> <<>>, overflow |-> FALSE]


\* append_cable_segment that ends every path at the far termination
AppendCableSegmentEndsAtFar(port, parent_chain, connection, stack) ==
    [paths |-> <<[cable_segments |-> Append(parent_chain, connection), end_port |-> None]>>,
     overflow |-> FALSE]

\* CablePortAccess::append_cable_segments / append_cable_segment.  `stack` is
\* the set of ports whose append_cable_segments call is still active: a call
\* on one of them repeats the calls that led to it without end, and the
\* recursion overflows the stack.
RECURSIVE AppendCableSegments(_, _, _)
RECURSIVE AppendEach(_, _, _, _, _)
AppendCableSegment(port, parent_chain, connection, stack) ==
    LET next_port == NextDevicePortId(connection.far)
    IN IF next_port # None
       THEN AppendCableSegments(next_port, Append(parent_chain, connection), stack \cup {port})
       ELSE [paths |-> <<[cable_segments |-> Append(parent_chain, connection),
                          end_port |-> None]>>,
             overflow |-> FALSE]

AppendEach(port, parent_chain, segments, i, stack) ==
    IF i > Len(segments) THEN NoPaths
    ELSE LET first == AppendCableSegment(port, parent_chain, segments[i], stack)
         IN IF first.overflow THEN first
            ELSE LET rest == AppendEach(port, parent_chain, segments, i + 1, stack)
                 IN [paths |-> first.paths \o rest.paths, overflow |-> rest.overflow]

AppendCableSegments(port, parent_chain, stack) ==
    IF port \in stack THEN [paths |-> <<>>, overflow |-> TRUE]
    ELSE LET remaining_segments == AttachedCableSegments(port)
         IN IF remaining_segments # <<>>
            THEN AppendEach(port, parent_chain, remaining_segments, 1, stack)
            ELSE [paths |-> <<[cable_segments |-> parent_chain, end_port |-> port]>>,
                  overflow |-> FALSE]

\* the closure walk_cable hands to append_cable_segments
Reports(path, self) == path.end_port # self

\* CablePortAccess::walk_cable
WalkCableFrom(self) ==
    LET r == AppendCableSegments(self, <<>>, {})
    IN [paths |-> SelectSeq(r.paths, LAMBDA path : Reports(path, self)),
        overflow |-> r.overflow]

\* CablePath::far_port
FarPort(path, start) ==
    IF path.end_port # None THEN path.end_port
    ELSE IF Len(path.cable_segments) > 0
         THEN path.cable_segments[Len(path.cable_segments)].far
         ELSE start

CableInit ==
    /\ cables \in {cs \in [CableIds -> CableShapes] : WellCabled(cs)}
    /\ \E pt \in PassThroughs :
          /\ rear_port = pt.rear_port
          /\ front_port = pt.front_port
    /\ start_port = None
    /\ visited = <<>>
    /\ connected = <<>>
    /\ walkPhase = "ready"

CableIdle ==
    /\ cables = [c \in CableIds |-> NoCable]
    /\ rear_port = [f \in FrontPorts |-> None]
    /\ front_port = [r \in RearPorts |-> None]
    /\ start_port = None
    /\ visited = <<>>
    /\ connected = <<>>
    /\ walkPhase = "ready"

\* collect_cables(port): the visitor pushes every path it is handed
CollectCables(port) ==
    /\ walkPhase = "ready"
    /\ LET r == WalkCableFrom(port)
       IN /\ visited' = r.paths
          /\ walkPhase' = IF r.overflow THEN "overflow" ELSE "walked"
    /\ start_port' = port
    /\ UNCHANGED <<cables, rear_port, front_port, connected>>
    /\ UNCHANGED notCable

\* InterfaceAccess::connected_interfaces: the visitor keeps the far ports
\* that are interfaces
ConnectedInterfaces(interface) ==
    /\ walkPhase = "ready"
    /\ LET r == WalkCableFrom(interface)
           fars == [i \in 1..Len(r.paths) |-> FarPort(r.paths[i], interface)]
       IN /\ visited' = r.paths
          /\ connected' = SelectSeq(fars, LAMBDA far : far \in Interfaces)
          /\ walkPhase' = IF r.overflow THEN "overflow" ELSE "connected"
    /\ start_port' = interface
    /\ UNCHANGED <<cables, rear_port, front_port>>
    /\ UNCHANGED notCable

CableNext ==
    \/ \E port \in CablePorts : CollectCables(port)
    \/ \E interface \in Interfaces : ConnectedInterfaces(interface)

(***************************************************************************)
(* Properties of the cable-path resolver                                   *)
(***************************************************************************)
\* C2: whenever walk_cable(P) terminates, no path handed to the visitor has
\* far_port() equal to P, and connected_interfaces of an interface does not
\* contain that interface.
C2_NoSelfFarEnd ==
    walkPhase \in {"walked", "connected"} =>
        /\ \A i \in 1..Len(visited) : FarPort(visited[i], start_port) # start_port
        /\ \A i \in 1..Len(connected) : connected[i] # start_port

\* Longest chain of cable crossings looked at: one more than the number of
\* cables, so that a chain of this length crosses some cable twice.
MaxHops == 3

\* every way of crossing one cable: from a termination to a termination of
\* the opposite side
CableLinks ==
    UNION {{[near |-> n, far |-> f, cable |-> c] :
                <<n, f>> \in (SeqRange(cables[c].port_a) \X SeqRange(cables[c].port_b))
                       \cup (SeqRange(cables[c].port_b) \X SeqRange(cables[c].port_a))} :
           c \in CableIds}
Steps(port) == {l \in CableLinks : l.near = port}
\* the port a chain continues from: the other face of the panel position its
\* last crossing arrived at
Onward(ch) == NextDevicePortId(ch[Len(ch)].far)

\* chains of n crossings starting at port P
RECURSIVE ChainsFrom(_, _)
ChainsFrom(P, n) ==
    IF n = 1 THEN {<<l>> : l \in Steps(P)}
    ELSE UNION {{Append(ch, l) : l \in Steps(Onward(ch))} : ch \in ChainsFrom(P, n - 1)}
Chains(P) == UNION {ChainsFrom(P, n) : n \in 1..MaxHops}

\* no chain from P crosses a cable twice
Loopless(P) ==
    \A ch \in Chains(P) : \A i, j \in 1..Len(ch) : i # j => ch[i].cable # ch[j].cable

\* a chain is complete when it cannot be continued: its last far termination
\* has no panel behind it (no end port), or the port behind it has no cable
\* to cross (that port is the end port)
Complete(ch) == Onward(ch) = None \/ Steps(Onward(ch)) = {}
CompletePaths(P) ==
    {[cable_segments |-> ch, end_port |-> Onward(ch)] : ch \in {c \in Chains(P) : Complete(c)}}

\* position of a termination in the listing of the side of its cable
SideIndex(l) ==
    LET side == IF Contains(cables[l.cable].port_a, l.far)
                THEN cables[l.cable].port_a ELSE cables[l.cable].port_b
    IN CHOOSE i \in 1..Len(side) : side[i] = l.far
\* path p is visited before path q: at the first crossing where they part,
\* p takes the termination listed first
Before(p, q) ==
    \E k \in 1..Min(Len(p.cable_segments), Len(q.cable_segments)) :
        /\ \A h \in 1..(k - 1) : p.cable_segments[h] = q.cable_segments[h]
        /\ p.cable_segments[k] # q.cable_segments[k]
        /\ SideIndex(p.cable_segments[k]) < SideIndex(q.cable_segments[k])

\* C12: on cabling without loops, walk_cable(P, visit) terminates and calls
\* visit exactly once for each complete path from P (one per choice of far
\* termination at every cable crossed) and never for a partial path, and
\* collect_cables(P) holds exactly those paths in visit order (branches in
\* the order the terminations are listed).
C12_EveryPathOnce ==
    (walkPhase # "ready" /\ Loopless(start_port)) =>
        /\ walkPhase # "overflow"
        /\ \A i, j \in 1..Len(visited) : i # j => visited[i] # visited[j]
        /\ SeqRange(visited) = CompletePaths(start_port)
        /\ \A i, j \in 1..Len(visited) : i < j => Before(visited[i], visited[j])

\* C12 witness: collect_cables on a fan-out cable without loops: one branch
\* goes on through a panel over a second cable, the other ends at an open
\* panel port.
C12_Witness ==
    /\ walkPhase = "walked"
    /\ Loopless(start_port)
    /\ Len(visited) = 2
    /\ Len(visited[1].cable_segments) = 1 /\ visited[1].end_port # None
    /\ Len(visited[2].cable_segments) = 2 /\ visited[2].end_port = None

\* the ports append_cable_segments is called on next from a call on port
NextCalls(port) == {NextDevicePortId(l.far) : l \in Steps(port)} \ {None}
\* the ports reached by calls from the ports of S, S included
RECURSIVE CallsFrom(_)
CallsFrom(S) ==
    LET more == S \cup UNION {NextCalls(p) : p \in S}
    IN IF more = S THEN S ELSE CallsFrom(more)
\* some walk from P comes to a port that is already on its path
LoopsBack(P) == \E q \in CallsFrom({P}) : q \in CallsFrom(NextCalls(q))

C24_LoopReached ==
    /\ walkPhase = "overflow"
    /\ LoopsBack(start_port)
    /\ start_port \in Interfaces

(***************************************************************************)
(* Device synthesis: L2Setup::new and BaseDeviceDataTarget::generate_from  *)
(***************************************************************************)
\* let mut candidate = 60000
SynthBase == 60000

\* Option<VlanId>, Option<u16> and Option<InterfaceId>: 0 is None
NoVlan == 0
NoTag == 0
NoInterface == 0

VlanIds == {1, 2, 3}
\* Topology.vlans: VLAN 1 has tag 10, VLAN 2 has tag 60000, VLAN 3 has no
\* record, VLAN 4 (of another VLAN group) has tag 10 as well
VlanTable == (1 :> 10) @@ (2 :> SynthBase) @@ (4 :> 10)
\* VlanAccess::vlan_id
VlanTagOf(v) == IF v \in DOMAIN VlanTable THEN VlanTable[v] ELSE NoTag

\* the interfaces of the device: two ports and one bridge interface
PortIfs == {1, 2}
BridgeIf == 3
DevIfs == PortIfs \cup {BridgeIf}

\* PhysicalPortId: Ethernet(1..4), Ethernet(8), Ethernet(9), SfpSfpPlus(1),
\* SfpSfpPlus(9), Wifi(1), Wlan(1), Loopback
PhysicalPorts == {"E1", "E2", "E3", "E4", "E8", "E9", "S1", "S9", "W1", "N1", "Lo"}
DefaultNameOfEveryKind(port) ==
    CASE port = "E1" -> "ether1"
      [] port = "E2" -> "ether2"
      [] port = "E3" -> "ether3"
      [] port = "E4" -> "ether4"
      [] port = "E8" -> "ether8"
      [] port = "E9" -> "ether9"
      [] port = "S1" -> "sfp-sfpplus1"
      [] port = "S9" -> "sfp-sfpplus9"
      [] port = "Lo" -> "lo"
      [] OTHER -> "wlan1"
\* PhysicalPortId::default_name
DefaultName(port) ==
    CASE port = "E1" -> "ether1"
      [] port = "E2" -> "ether2"
      [] port = "E3" -> "ether3"
      [] port = "E4" -> "ether4"
      [] port = "E8" -> "ether8"
      [] port = "E9" -> "ether9"
      [] port = "S1" -> "sfp-sfpplus1"
      [] port = "S9" -> "sfp-sfpplus9"
      [] OTHER -> None
\* PhysicalPortId::short_name
ShortName(port) ==
    CASE port = "E1" -> "e01"
      [] port = "E2" -> "e02"
      [] port = "E3" -> "e03"
      [] port = "E4" -> "e04"
      [] port = "E8" -> "e08"
      [] port = "E9" -> "e09"
      [] port = "S1" -> "s01"
      [] port = "S9" -> "s09"
      [] port = "Lo" -> "lo"
      [] OTHER -> "w01"
\* build_ethernet_ports(model): the ethernet ports the hardware has
HwPorts == {"ether1", "ether2", "ether3", "ether4", "sfp-sfpplus1"}

\* Topology.ip_addresses, Topology.ip_prefixes and Topology.ip_ranges.  An
\* address has the prefix whose network is its own (fetch.rs:704) or none, a
\* range belongs to the prefix it starts at the network address of
\* (fetch.rs:666).  P1, P2, P3 with its child P5, P4 and P6 are prefixes of
\* five inventories; the addresses of one device come from one of them.
IpAddressTable ==
    [A1 |-> [ip |-> [addr |-> 1, len |-> 29], prefix |-> "P1"],
     A2 |-> [ip |-> [addr |-> 2, len |-> 30], prefix |-> None],
     A4 |-> [ip |-> [addr |-> 4, len |-> 29], prefix |-> "P2"],
     A5 |-> [ip |-> [addr |-> 1, len |-> 29], prefix |-> "P3"],
     A6 |-> [ip |-> [addr |-> 2, len |-> 31], prefix |-> "P4"],
     A7 |-> [ip |-> [addr |-> 6, len |-> 29], prefix |-> "P6"],
     A8 |-> [ip |-> [addr |-> 3, len |-> 29], prefix |-> "P1"],
     L1 |-> [ip |-> [addr |-> 6, len |-> 32], prefix |-> None]]
IpRangeTable ==
    [R1 |-> [is_dhcp |-> TRUE, start |-> 0, end |-> 3],
     R2 |-> [is_dhcp |-> FALSE, start |-> 0, end |-> 4],
     R3 |-> [is_dhcp |-> TRUE, start |-> 0, end |-> 5],
     R4 |-> [is_dhcp |-> FALSE, start |-> 0, end |-> 2]]
IpPrefixTable ==
    [P1 |-> [prefix |-> [network |-> 0, broadcast |-> 7],
             addresses |-> <<"A1", "A8">>, children |-> <<>>, ranges |-> <<>>],
     P2 |-> [prefix |-> [network |-> 0, broadcast |-> 7],
             addresses |-> <<"A4">>, children |-> <<>>, ranges |-> <<"R1", "R2", "R3">>],
     P3 |-> [prefix |-> [network |-> 0, broadcast |-> 7],
             addresses |-> <<"A5">>, children |-> <<"P5">>, ranges |-> <<"R2">>],
     P4 |-> [prefix |-> [network |-> 2, broadcast |-> 3],
             addresses |-> <<"A6">>, children |-> <<>>, ranges |-> <<>>],
     P5 |-> [prefix |-> [network |-> 4, broadcast |-> 5],
             addresses |-> <<>>, children |-> <<>>, ranges |-> <<>>],
     P6 |-> [prefix |-> [network |-> 0, broadcast |-> 7],
             addresses |-> <<"A7">>, children |-> <<>>, ranges |-> <<"R4">>]]
\* Topology.wlan_groups, Topology.wlans, Topology.vxlans and the primary IPv4
\* of the devices of the inventory ("sw1" is the device configured)
WlanGroupTable ==
    [G1 |-> [mgmt_vlan |-> 4, wlans |-> {"W1"}, aps |-> {"sw1", "ap2", "ap3"},
             controller |-> "ctl"],
     G2 |-> [mgmt_vlan |-> NoVlan, wlans |-> {"W2", "W3"}, aps |-> {"sw1"},
             controller |-> "ap2"]]
WlanTable ==
    [W1 |-> [vlan |-> 1, wlan_group |-> "G1"],
     W2 |-> [vlan |-> 1, wlan_group |-> "G2"],
     W3 |-> [vlan |-> 2, wlan_group |-> "G2"]]
VlanVxlan == (1 :> "X1") @@ (2 :> "X2") @@ (4 :> "X3")
VxlanTable ==
    [X1 |-> [name |-> "Guest", vni |-> 100, interface_terminations |-> {},
             vlan_terminations |-> {1}],
     X2 |-> [name |-> "guest", vni |-> 200, interface_terminations |-> {"far"},
             vlan_terminations |-> {2}],
     X3 |-> [name |-> "mgmt", vni |-> 300, interface_terminations |-> {"sw1", "ctl"},
             vlan_terminations |-> {4}]]
PeerIps == [ap2 |-> "ip-peer", ap3 |-> None, ctl |-> "ip-ctl", far |-> "ip-far"]
\* DeviceAccess::primary_ip_v4 of a device of the inventory
PrimaryIpV4(dev, name) == IF name = dev.name THEN dev.primary_ip_v4 ELSE PeerIps[name]
\* VlanAccess::wlan: the WLANs on a VLAN
WlansOfVlan(v) == {w \in DOMAIN WlanTable : WlanTable[w].vlan = v}
\* VxlanAccess::vteps: the primary IPv4 of the devices of the interface
\* terminations and of the APs and controller of every WLAN group with a WLAN
\* on a VLAN termination
Vteps(dev, vxlan) ==
    LET groups == {WlanTable[w].wlan_group :
                      w \in UNION {WlansOfVlan(v) : v \in vxlan.vlan_terminations}}
        devices == vxlan.interface_terminations
                       \cup UNION {WlanGroupTable[g].aps \cup {WlanGroupTable[g].controller} :
                                      g \in groups}
    IN {PrimaryIpV4(dev, d) : d \in devices} \ {None}
\* setup_vxlan, line 481: .filter(|ip| ip != my_ip)
RemoteVteps(ips, my_ip) == ips \ {my_ip}
\* format!("vxlan-{name}").to_case(Case::Kebab) of the cleaned-up name: words
\* in lower case joined by "-"
VxlanIfName(name) ==
    IF name \in {"Guest", "guest"} THEN "vxlan-guest" ELSE "vxlan-mgmt"

MkInterface(ext, br, vl, tg, ips, ospf, dc, ds, poe) ==
    [external |-> ext, bridge |-> br, vlan |-> vl, tagged_vlans |-> tg, ips |-> ips,
     use_ospf |-> ospf, enable_dhcp_client |-> dc, enable_dhcp_server |-> ds,
     enable_poe |-> poe]
PlainInterface == MkInterface(None, NoInterface, NoVlan, {}, <<>>, FALSE, FALSE, FALSE, FALSE)

\* Device.ports is a HashSet: device.interfaces() lists the ports in any
\* order (the bridge interface has no port and is skipped wherever it stands)
IfOrders == {<<1, 2, 3>>, <<2, 1, 3>>}

OwnPort(i) == IF i = 1 THEN "E1" ELSE "E2"

\* devices that differ in their L2 assignments only
L2Devices ==
    {[name |-> "sw1", loopback_ip |-> None, primary_ip_v4 |-> None, wlan_ap_of |-> None, vxlans_reversed |-> FALSE,
      order |-> o,
      ifs |-> [i \in DevIfs |->
                 IF i = BridgeIf THEN PlainInterface
                 ELSE MkInterface(e[i], b[i], v[i], t[i], <<>>, FALSE, FALSE, FALSE, FALSE)]] :
        o \in IfOrders,
        e \in {f \in [PortIfs -> PhysicalPorts \cup {None}] :
                  \A i \in PortIfs : f[i] \in {None, OwnPort(i)}},
        b \in [PortIfs -> {NoInterface, BridgeIf}],
        v \in [PortIfs -> VlanIds \cup {NoVlan}],
        t \in [PortIfs -> SUBSET VlanIds]}

\* devices that differ in ports, addressing and routing roles
L2Shapes == {"routed", "switch", "trunk"}
ShapeBridge(shape) == IF shape = "routed" THEN NoInterface ELSE BridgeIf
ShapeVlan(shape, i) ==
    IF shape = "routed" THEN NoVlan
    ELSE IF shape = "switch" THEN 1
    ELSE IF i = 1 THEN 1 ELSE NoVlan
ShapeTagged(shape) == IF shape = "trunk" THEN {2} ELSE {}
ShapeRoot(shape) == IF shape = "routed" THEN 1 ELSE BridgeIf
IpLists == {<<>>, <<"A1">>, <<"A2">>, <<"A8">>, <<"A1", "A2">>}

GenDevices ==
    {[name |-> "sw1", loopback_ip |-> lo, primary_ip_v4 |-> pri, wlan_ap_of |-> ap, vxlans_reversed |-> FALSE,
      order |-> o,
      ifs |-> [i \in DevIfs |->
                 LET ext == IF i = 1 THEN e1 ELSE IF i = 2 THEN e2 ELSE None
                     root == (i = ShapeRoot(shape))
                 IN MkInterface(ext,
                                IF i = BridgeIf THEN NoInterface ELSE ShapeBridge(shape),
                                IF i = BridgeIf THEN NoVlan ELSE ShapeVlan(shape, i),
                                IF i = BridgeIf THEN {} ELSE ShapeTagged(shape),
                                IF root THEN ips ELSE <<>>,
                                root /\ fl[1], root /\ fl[2], root /\ fl[3],
                                i = 1 /\ fl[4])]] :
        o \in IfOrders,
        e1 \in {"E1", "E9"}, e2 \in {None, "E2"},
        shape \in L2Shapes, ips \in IpLists,
        fl \in BOOLEAN \X BOOLEAN \X BOOLEAN \X BOOLEAN,
        lo \in {None, "L1"}, pri \in {None, "ip-self"}, ap \in {None, "G1"}}

\* switches: four ports on one bridge, each port absent or with one of the
\* usual VLAN assignments (access port, trunk, hybrid port, no VLAN)
SwitchPorts == {1, 2, 4, 5}
SwitchPortOf(i) == IF i = 1 THEN "E1" ELSE IF i = 2 THEN "E2" ELSE IF i = 4 THEN "E3" ELSE "E4"
SwitchOrders == {<<1, 2, 4, 5, 3>>, <<5, 4, 2, 1, 3>>}
VlanAssignments ==
    {[external |-> x[1], vlan |-> x[2], tagged_vlans |-> x[3]] :
        x \in {<<FALSE, NoVlan, {}>>, <<TRUE, NoVlan, {}>>, <<TRUE, 1, {}>>, <<TRUE, 2, {}>>,
               <<TRUE, 4, {}>>,
               <<TRUE, NoVlan, {1}>>, <<TRUE, 1, {2}>>, <<TRUE, NoVlan, {1, 2}>>}}
SwitchDevices ==
    {[name |-> "sw1", loopback_ip |-> None, primary_ip_v4 |-> None, wlan_ap_of |-> None, vxlans_reversed |-> FALSE,
      order |-> o,
      ifs |-> [i \in SwitchPorts \cup {BridgeIf} |->
                 IF i = BridgeIf THEN PlainInterface
                 ELSE MkInterface(IF a[i].external THEN SwitchPortOf(i) ELSE None,
                                  BridgeIf, a[i].vlan, a[i].tagged_vlans,
                                  <<>>, FALSE, FALSE, FALSE, FALSE)]] :
        o \in SwitchOrders, a \in [SwitchPorts -> VlanAssignments]}

\* devices with two bridge interfaces (3 and 4): each of the two ports is a
\* member of one of them, with or without an untagged VLAN and tagged VLANs
SecondBridgeIf == 4
BridgeOrders == {<<1, 2, 3, 4>>, <<4, 2, 1, 3>>}
TwoBridgeDevices ==
    {[name |-> "sw1", loopback_ip |-> None, primary_ip_v4 |-> None, wlan_ap_of |-> None,
      vxlans_reversed |-> FALSE,
      order |-> o,
      ifs |-> [i \in PortIfs \cup {BridgeIf, SecondBridgeIf} |->
                 IF i \notin PortIfs THEN PlainInterface
                 ELSE MkInterface(OwnPort(i), b[i], v[i], t[i], <<>>, FALSE, FALSE, FALSE, FALSE)]] :
        o \in BridgeOrders,
        b \in [PortIfs -> {BridgeIf, SecondBridgeIf}],
        v \in [PortIfs -> {NoVlan, 1, 2}],
        t \in [PortIfs -> SUBSET {1, 2}]}

\* devices with external ports of every kind, on and off the hardware
PortDevices ==
    {[name |-> "sw1", loopback_ip |-> None, primary_ip_v4 |-> None, wlan_ap_of |-> None,
      vxlans_reversed |-> FALSE,
      order |-> o,
      ifs |-> [i \in DevIfs |->
                 LET ext == IF i = 1 THEN e1 ELSE IF i = 2 THEN e2 ELSE None
                 IN MkInterface(ext,
                                IF i = BridgeIf THEN NoInterface ELSE ShapeBridge(shape),
                                IF i = BridgeIf THEN NoVlan ELSE ShapeVlan(shape, i),
                                IF i = BridgeIf THEN {} ELSE ShapeTagged(shape),
                                <<>>, FALSE, FALSE, FALSE, i = 1 /\ poe)]] :
        o \in IfOrders, shape \in L2Shapes, poe \in BOOLEAN,
        e1 \in {"E1", "E9", "S1", "S9", "W1", "N1", "Lo"}, e2 \in {None, "E2", "E8"}}

\* WLAN access points of the two groups
WlanDevices ==
    {[name |-> "sw1", loopback_ip |-> None, primary_ip_v4 |-> pri, wlan_ap_of |-> ap,
      vxlans_reversed |-> rv,
      order |-> o,
      ifs |-> [i \in DevIfs |->
                 LET ext == IF i = 1 THEN "E1" ELSE IF i = 2 THEN "E2" ELSE None
                 IN MkInterface(ext,
                                IF i = BridgeIf THEN NoInterface ELSE ShapeBridge(shape),
                                IF i = BridgeIf THEN NoVlan ELSE ShapeVlan(shape, i),
                                IF i = BridgeIf THEN {} ELSE ShapeTagged(shape),
                                <<>>, FALSE, FALSE, FALSE, FALSE)]] :
        o \in IfOrders, shape \in L2Shapes, pri \in {None, "ip-self"},
        ap \in {None, "G1", "G2"}, rv \in BOOLEAN}

\* devices whose root interface asks for DHCP on addresses of the prefixes
DhcpLists == {<<>>, <<"A1">>, <<"A2">>, <<"A4">>, <<"A5">>, <<"A6">>, <<"A7">>, <<"A1", "A8">>}
DhcpDevices ==
    {[name |-> "sw1", loopback_ip |-> None, primary_ip_v4 |-> None, wlan_ap_of |-> None, vxlans_reversed |-> FALSE,
      order |-> o,
      ifs |-> [i \in DevIfs |->
                 LET ext == IF i = 1 THEN "E1" ELSE IF i = 2 THEN e2 ELSE None
                     root == (i = ShapeRoot(shape))
                 IN MkInterface(ext,
                                IF i = BridgeIf THEN NoInterface ELSE ShapeBridge(shape),
                                IF i = BridgeIf THEN NoVlan ELSE ShapeVlan(shape, i),
                                IF i = BridgeIf THEN {} ELSE ShapeTagged(shape),
                                IF root THEN ips ELSE <<>>,
                                FALSE, root /\ fl[1], root /\ fl[2], FALSE)]] :
        o \in IfOrders, e2 \in {None, "E2"},
        shape \in L2Shapes, ips \in DhcpLists, fl \in BOOLEAN \X BOOLEAN}

NoDevice ==
    [name |-> "", loopback_ip |-> None, primary_ip_v4 |-> None, wlan_ap_of |-> None, vxlans_reversed |-> FALSE,
     order |-> <<>>, ifs |-> [i \in DevIfs |-> PlainInterface]]

(*--------------------------- L2Setup::new --------------------------------*)
\* interface.bridge().unwrap_or(interface.clone()).id()
RootOf(dev, i) == IF dev.ifs[i].bridge # NoInterface THEN dev.ifs[i].bridge ELSE i

\* EndpointNameGenerator on an interface without cable: the port's short name
GenerateInterfaceName(dev, i) == ShortName(dev.ifs[i].external)

L2PortOf(kind, dev, i) ==
    [kind |-> kind, name |-> GenerateInterfaceName(dev, i), port |-> dev.ifs[i].external]

\* line 151: if !vlan_added
DefaultEntryAlways(vlan_added) == TRUE
DefaultEntryNeeded(vlan_added) == ~vlan_added

\* lines 116-161: the (key, port) pairs one interface pushes, in order
EntriesOf(dev, i) ==
    LET itf == dev.ifs[i]
        bridge_id == RootOf(dev, i)
        tags == SortedSeq(itf.tagged_vlans)
        tagged == [k \in 1..Len(tags) |->
                     [key |-> <<bridge_id, tags[k]>>,
                      port |-> L2PortOf("TaggedEthernet", dev, i)]]
        untagged == IF itf.vlan # NoVlan
                    THEN <<[key |-> <<bridge_id, itf.vlan>>,
                            port |-> L2PortOf("UntaggedEthernet", dev, i)]>>
                    ELSE <<>>
        vlan_added == (tagged \o untagged) # <<>>
    IN IF itf.external = None THEN <<>>
       ELSE (tagged \o untagged)
            \o (IF DefaultEntryNeeded(vlan_added)
                THEN <<[key |-> <<bridge_id, NoVlan>>,
                        port |-> L2PortOf("UntaggedEthernet", dev, i)]>>
                ELSE <<>>)

\* lines 115-162: for interface in device.interfaces()
RECURSIVE AllEntries(_, _)
AllEntries(dev, k) ==
    IF k > Len(dev.order) THEN <<>>
    ELSE EntriesOf(dev, dev.order[k]) \o AllEntries(dev, k + 1)

\* the order of the BTreeMap keys (InterfaceId, Option<VlanId>)
KeyLess(a, b) == a[1] < b[1] \/ (a[1] = b[1] /\ a[2] < b[2])
RECURSIVE SortKeys(_)
SortKeys(S) ==
    IF S = {} THEN <<>>
    ELSE LET k == CHOOSE x \in S : \A y \in S \ {x} : KeyLess(x, y)
         IN <<k>> \o SortKeys(S \ {k})

\* lines 177-181: while !used_vlans.insert(candidate) { candidate += 1 }
NextFreeFirst(used, candidate) == candidate
RECURSIVE NextFree(_, _)
NextFree(used, candidate) ==
    IF candidate \in used THEN NextFree(used, candidate + 1) ELSE candidate

\* lines 170-191: the planes in key order, each with its tag
RECURSIVE AssignTags(_, _, _)
AssignTags(keys, used, entries) ==
    IF keys = <<>> THEN <<>>
    ELSE LET key == Head(keys)
             inventory == IF key[2] # NoVlan THEN VlanTagOf(key[2]) ELSE NoTag
             vlan_id == IF inventory # NoTag THEN inventory ELSE NextFree(used, SynthBase)
             mine == SelectSeq(entries, LAMBDA en : en.key = key)
             plane == [ports |-> [k \in 1..Len(mine) |-> mine[k].port],
                       vlan |-> key[2],
                       vlan_id |-> vlan_id,
                       root_port |-> key[1]]
         IN <<plane>> \o AssignTags(Tail(keys), used \cup {vlan_id}, entries)

\* L2Setup::new(device, &mut EndpointNameGenerator).planes
L2SetupNew(dev) ==
    LET entries == AllEntries(dev, 1)
        keys == {entries[k].key : k \in 1..Len(entries)}
        used_vlans == {VlanTagOf(key[2]) : key \in {x \in keys : x[2] # NoVlan}} \ {NoTag}
    IN AssignTags(SortKeys(keys), used_vlans, entries)

(*------------------ BaseDeviceDataTarget::generate_from ------------------*)
Put(m, k, v) == [x \in DOMAIN m \cup {k} |-> IF x = k THEN v ELSE m[x]]

\* an interface name: a base name and, for a VLAN interface, "-<vid>"
IfName(base, vid) == [base |-> base, vid |-> vid]
DEFAULT_BRIDGE_NAME == IfName("switch", NoTag)
CAPS_BRIDGE_NAME == IfName("bridge-caps", NoTag)

NoResult == [kind |-> "none", error |-> "", arg |-> ""]
Ok == [kind |-> "Ok", error |-> "", arg |-> ""]
Err(error, arg) == [kind |-> "Err", error |-> error, arg |-> arg]
\* the call did not return: a panic unwinds through generate_from
Panic == [kind |-> "Panic", error |-> "assertion failed: min <= max", arg |-> ""]
\* todo!("Define vxlan") / todo!("define caps")
Todo == [kind |-> "Panic", error |-> "not yet implemented", arg |-> ""]
\* panic!("Cannot create tagged port on switch without vlan")
Contradiction ==
    [kind |-> "Panic", error |-> "Cannot create tagged port on switch without vlan", arg |-> ""]
EthernetKinds == {"TaggedEthernet", "UntaggedEthernet"}

\* BaseDeviceDataTarget::new(model)
TargetNew ==
    [identity |-> "",
     ethernet |-> [n \in HwPorts |-> [name |-> n, poe_out |-> None]],
     bridge |-> EmptyMap, bridge_port |-> EmptyMap, bridge_vlan |-> {},
     ipv_4_address |-> EmptyMap, vlan |-> EmptyMap,
     dhcp_v_4_client |-> {}, dhcp_v_4_server |-> EmptyMap,
     dhcp_v_4_server_network |-> EmptyMap, ipv_4_pool |-> EmptyMap,
     ospf_instance |-> EmptyMap, ospf_area |-> EmptyMap, ospf_interface |-> EmptyMap,
     vxlan |-> EmptyMap, vxlan_vteps |-> {}]

\* lines 400-403: set_identity and set_loopback_ip
SetIdentityAndLoopback(tgt, dev) ==
    LET t1 == [tgt EXCEPT !.identity = dev.name]
    IN IF dev.loopback_ip # None
       THEN [t1 EXCEPT !.ipv_4_address =
                Put(@, IpAddressTable[dev.loopback_ip].ip, IfName("lo", NoTag))]
       ELSE t1

\* setup_l2, lines 178-210 with get_ethernet_port: rename the ports one by
\* one; the first port the hardware does not have ends the call, and so does
\* the todo!() of a VxLan or Caps port
RECURSIVE RenamePorts(_, _, _)
RenamePorts(ethernet, ports, k) ==
    IF k > Len(ports) THEN [ethernet |-> ethernet, result |-> Ok]
    ELSE IF ports[k].kind \notin EthernetKinds THEN [ethernet |-> ethernet, result |-> Todo]
    ELSE LET default_name == DefaultName(ports[k].port)
         IN IF default_name = None THEN RenamePorts(ethernet, ports, k + 1)
            ELSE IF default_name \notin DOMAIN ethernet
            THEN [ethernet |-> ethernet, result |-> Err("PortNotFound", ports[k].port)]
            ELSE RenamePorts([ethernet EXCEPT ![default_name].name = ports[k].name],
                             ports, k + 1)

RECURSIVE Flatten(_)
Flatten(seqs) == IF seqs = <<>> THEN <<>> ELSE Head(seqs) \o Flatten(Tail(seqs))

PlanePorts(planes) == Flatten([k \in 1..Len(planes) |-> planes[k].ports])

\* lines 162-172: plane_count_of_port
PlaneCountOfPort(planes, name) ==
    Cardinality({k \in 1..Len(PlanePorts(planes)) : PlanePorts(planes)[k].name = name})

\* a plane of one untagged port, whatever other planes the port is in
IsRoutedAlone(planes, plane) ==
    /\ Len(plane.ports) = 1
    /\ plane.ports[1].kind = "UntaggedEthernet"

\* lines 211-214: a plane of one untagged port that is in no other plane
IsRouted(planes, plane) ==
    /\ Len(plane.ports) = 1
    /\ plane.ports[1].kind = "UntaggedEthernet"
    /\ PlaneCountOfPort(planes, plane.ports[1].name) = 1

Mapped(root, kind, if_name, vid) ==
    [root |-> root, plane |-> [kind |-> kind, if_name |-> if_name, vid |-> vid]]

\* setup_single_switch_without_vlan
SetupSingleSwitchWithoutVlan(tgt, single_plane) ==
    LET names == {single_plane.ports[k].name : k \in 1..Len(single_plane.ports)}
        t1 == [tgt EXCEPT !.bridge =
                  Put(@, DEFAULT_BRIDGE_NAME,
                      [vlan_filtering |-> FALSE, ingress_filtering |-> "false",
                       protocol_mode |-> "Rstp"])]
        t2 == [t1 EXCEPT !.bridge_port =
                  [x \in DOMAIN @ \cup {<<DEFAULT_BRIDGE_NAME, n>> : n \in names} |->
                      IF x[2] \in names /\ x[1] = DEFAULT_BRIDGE_NAME
                      THEN [ingress_filtering |-> "default", pvid |-> NoTag,
                            frame_types |-> "AdmitOnlyUntaggedAndPriorityTagged"]
                      ELSE @[x]]]
    IN [target |-> t2,
        mapped |-> <<Mapped(single_plane.root_port, "Untagged", DEFAULT_BRIDGE_NAME, NoTag)>>,
        panicked |-> \E k \in 1..Len(single_plane.ports) :
                        single_plane.ports[k].kind # "UntaggedEthernet"]

\* the last plane in which the port is untagged gives its pvid
NeverUntagged(switch_planes, name, k) == NoTag
RECURSIVE LastUntagged(_, _, _)
LastUntagged(switch_planes, name, k) ==
    IF k = 0 THEN NoTag
    ELSE IF \E j \in 1..Len(switch_planes[k].ports) :
               /\ switch_planes[k].ports[j].name = name
               /\ switch_planes[k].ports[j].kind = "UntaggedEthernet"
         THEN switch_planes[k].vlan_id
         ELSE LastUntagged(switch_planes, name, k - 1)

\* setup_big_bridge
SetupBigBridge(tgt, switch_planes) ==
    LET ports == PlanePorts(switch_planes)
        names == {ports[k].name : k \in 1..Len(ports)}
        taggedIn(name) ==
            {switch_planes[k].vlan_id : k \in
                {k \in 1..Len(switch_planes) :
                    \E j \in 1..Len(switch_planes[k].ports) :
                        /\ switch_planes[k].ports[j].name = name
                        /\ switch_planes[k].ports[j].kind = "TaggedEthernet"}}
        vids == {switch_planes[k].vlan_id : k \in 1..Len(switch_planes)}
        portsOf(vid, kind) ==
            {ports2.name : ports2 \in
                UNION {{switch_planes[k].ports[j] : j \in
                          {j \in 1..Len(switch_planes[k].ports) :
                              switch_planes[k].ports[j].kind = kind}} :
                       k \in {k \in 1..Len(switch_planes) : switch_planes[k].vlan_id = vid}}}
        t1 == [tgt EXCEPT !.bridge =
                  Put(@, DEFAULT_BRIDGE_NAME,
                      [vlan_filtering |-> TRUE, ingress_filtering |-> None,
                       protocol_mode |-> "Mstp"])]
        t2 == [t1 EXCEPT !.bridge_port =
                  [x \in DOMAIN @ \cup {<<DEFAULT_BRIDGE_NAME, n>> : n \in names} |->
                      IF x[2] \in names /\ x[1] = DEFAULT_BRIDGE_NAME
                      THEN LET untagged == LastUntagged(switch_planes, x[2], Len(switch_planes))
                           IN [ingress_filtering |-> "true",
                               pvid |-> untagged,
                               frame_types |->
                                  IF untagged # NoTag
                                  THEN IF taggedIn(x[2]) = {}
                                       THEN "AdmitOnlyUntaggedAndPriorityTagged"
                                       ELSE "AdmitAll"
                                  ELSE "AdmitOnlyVlanTagged"]
                      ELSE @[x]]]
        t3 == [t2 EXCEPT !.bridge_vlan =
                  @ \cup {[bridge |-> DEFAULT_BRIDGE_NAME,
                           tagged |-> portsOf(vid, "TaggedEthernet"),
                           untagged |-> portsOf(vid, "UntaggedEthernet"),
                           vlan_ids |-> {vid}] : vid \in vids}]
    IN [target |-> t3,
        mapped |-> [k \in 1..Len(switch_planes) |->
                      Mapped(switch_planes[k].root_port, "Tagged", DEFAULT_BRIDGE_NAME,
                             switch_planes[k].vlan_id)],
        panicked |-> FALSE]

\* lines 230-241: `if let [single_plane] = if all ports of all switched planes
\* are untagged { switch_planes.as_slice() } else { &[] }`
AllUntaggedPlanes(switch_planes) ==
    \A k \in 1..Len(switch_planes) :
        \A j \in 1..Len(switch_planes[k].ports) :
            switch_planes[k].ports[j].kind = "UntaggedEthernet"
IsSinglePlaneAnyCount(switch_planes) == AllUntaggedPlanes(switch_planes)
IsSinglePlaneOfAnyKind(switch_planes) == Len(switch_planes) = 1
IsSinglePlane(switch_planes) ==
    AllUntaggedPlanes(switch_planes) /\ Len(switch_planes) = 1

\* setup_l2(&l2, OneBridge, &mut mapped_planes)
SetupL2(tgt, planes) ==
    LET renamed == RenamePorts(tgt.ethernet, PlanePorts(planes), 1)
        t1 == [tgt EXCEPT !.ethernet = renamed.ethernet]
        routed == SelectSeq(planes, LAMBDA plane : IsRouted(planes, plane))
        switch_planes == SelectSeq(planes, LAMBDA plane : ~IsRouted(planes, plane))
        routedMapped == [k \in 1..Len(routed) |->
                           Mapped(routed[k].root_port, "Untagged",
                                  IfName(routed[k].ports[1].name, NoTag), NoTag)]
        bridged == IF switch_planes = <<>>
                   THEN [target |-> t1, mapped |-> <<>>, panicked |-> FALSE]
                   ELSE IF IsSinglePlane(switch_planes)
                   THEN SetupSingleSwitchWithoutVlan(t1, switch_planes[1])
                   ELSE SetupBigBridge(t1, switch_planes)
    IN IF renamed.result.kind # "Ok"
       THEN [target |-> t1, mapped |-> <<>>, result |-> renamed.result]
       ELSE IF bridged.panicked
       THEN [target |-> bridged.target, mapped |-> routedMapped \o bridged.mapped,
             result |-> Contradiction]
       ELSE [target |-> bridged.target, mapped |-> routedMapped \o bridged.mapped,
             result |-> Ok]

\* generate_from, lines 408-418: the PoE mode of every ethernet port
RECURSIVE SetupPoe(_, _, _)
SetupPoe(tgt, dev, k) ==
    IF k > Len(dev.order) THEN [target |-> tgt, result |-> Ok]
    ELSE LET port == dev.ifs[dev.order[k]]
             default_name == IF port.external # None THEN DefaultName(port.external) ELSE None
         IN IF default_name = None THEN SetupPoe(tgt, dev, k + 1)
            ELSE IF default_name \notin DOMAIN tgt.ethernet
            THEN [target |-> tgt, result |-> Err("PortNotFound", port.external)]
            ELSE SetupPoe([tgt EXCEPT !.ethernet[default_name].poe_out =
                              IF port.enable_poe THEN "AutoOn" ELSE "Off"],
                          dev, k + 1)

\* if_of_mapped_plane
IfOfMappedPlane(tgt, plane) ==
    IF plane.kind = "Tagged"
    THEN LET vlan_port_name == IfName(plane.if_name.base, plane.vid)
         IN [target |-> IF vlan_port_name \in DOMAIN tgt.vlan THEN tgt
                        ELSE [tgt EXCEPT !.vlan =
                                 Put(@, vlan_port_name,
                                     [interface |-> plane.if_name, vlan_id |-> plane.vid])],
             name |-> vlan_port_name]
    ELSE [target |-> tgt, name |-> plane.if_name]

\* setup_ip_addresses, lines 621-632: the DHCP-flagged ranges as start..end
ExplicitRanges(prefix) ==
    LET flagged == SelectSeq(prefix.ranges, LAMBDA id : IpRangeTable[id].is_dhcp)
    IN [k \in 1..Len(flagged) |->
          <<IpRangeTable[flagged[k]].start, IpRangeTable[flagged[k]].end>>]

\* line 630: gap_finder.reserve_ipv4_range(start..end) for every range
RECURSIVE ReserveRanges(_, _, _)
ReserveRanges(m, ids, k) ==
    IF k > Len(ids) THEN m
    ELSE LET chunk == RangeChunk(IpRangeTable[ids[k]].start, IpRangeTable[ids[k]].end)
         IN ReserveRanges(ReserveChunk(m, chunk[1], chunk[2]), ids, k + 1)

\* lines 634-638: gap_finder.reserve_ipv4_net(net) for every child prefix
RECURSIVE ReserveChildren(_, _, _)
ReserveChildren(m, ids, k) ==
    IF k > Len(ids) THEN m
    ELSE IF ids[k] \notin DOMAIN IpPrefixTable THEN ReserveChildren(m, ids, k + 1)
    ELSE LET chunk == NetChunk(IpPrefixTable[ids[k]].prefix)
         IN ReserveChildren(ReserveChunk(m, chunk[1], chunk[2]), ids, k + 1)

\* lines 639-643: gap_finder.reserve_ipv4(ip) for every address of the prefix
RECURSIVE ReserveIps(_, _, _)
ReserveIps(m, ids, k) ==
    IF k > Len(ids) THEN m
    ELSE LET chunk == PointChunk(IpAddressTable[ids[k]].ip.addr)
         IN ReserveIps(ReserveChunk(m, chunk[1], chunk[2]), ids, k + 1)

\* lines 621-648: the pool ranges of one prefix; find_gaps_ipv4(net).collect()
\* panics in Ord::clamp when the host window is reversed
DhcpRanges(prefix) ==
    LET dhcp_ranges_explicit == ExplicitRanges(prefix)
        window == HostWindow(prefix.prefix)
        with_ranges == ReserveRanges(EmptyMap, prefix.ranges, 1)
        with_children == ReserveChildren(with_ranges, prefix.children, 1)
        with_ips == ReserveIps(with_children, prefix.addresses, 1)
    IN IF dhcp_ranges_explicit = <<>>
       THEN CollectGaps(with_ips, window[1], window[2])
       ELSE [out |-> dhcp_ranges_explicit, panicked |-> FALSE]

\* setup_ip_addresses, lines 608-676: one address of one mapped plane
SetIp(tgt, if_name, ip_idx, id, dhcp_server) ==
    LET address == IpAddressTable[id]
        t1 == [tgt EXCEPT !.ipv_4_address = Put(@, address.ip, if_name)]
    IN IF ~dhcp_server THEN [target |-> t1, result |-> Ok]
       ELSE IF address.prefix = None
       THEN [target |-> t1, result |-> Err("MissingPrefixOnIpAddress", id)]
       ELSE IF address.prefix \notin DOMAIN IpPrefixTable
       THEN [target |-> t1, result |-> Err("MissingAddressOnPrefix", address.prefix)]
       ELSE LET prefix == IpPrefixTable[address.prefix]
                dhcp_ranges == DhcpRanges(prefix).out
                server_name == [dhcp |-> if_name, idx |-> ip_idx]
            IN IF DhcpRanges(prefix).panicked THEN [target |-> t1, result |-> Panic]
               ELSE IF dhcp_ranges = <<>> THEN [target |-> t1, result |-> Ok]
               ELSE [target |->
                        [t1 EXCEPT
                           !.dhcp_v_4_server =
                               Put(@, server_name,
                                   [interface |-> if_name, address_pool |-> server_name]),
                           !.dhcp_v_4_server_network =
                               LET old == IF prefix.prefix \in DOMAIN @ THEN @[prefix.prefix]
                                          ELSE [gateway |-> {}, dns_server |-> {}]
                               IN Put(@, prefix.prefix,
                                      [gateway |-> old.gateway \cup {address.ip.addr},
                                       dns_server |-> old.dns_server \cup {address.ip.addr}]),
                           !.ipv_4_pool = Put(@, server_name, dhcp_ranges)],
                     result |-> Ok]

RECURSIVE SetIps(_, _, _, _, _)
SetIps(tgt, if_name, ips, k, dhcp_server) ==
    IF k > Len(ips) THEN [target |-> tgt, result |-> Ok]
    ELSE LET r == SetIp(tgt, if_name, k - 1, ips[k], dhcp_server)
         IN IF r.result.kind # "Ok" THEN r
            ELSE SetIps(r.target, if_name, ips, k + 1, dhcp_server)

\* setup_ip_addresses(&mapped_planes)
RECURSIVE SetupIpAddresses(_, _, _, _)
SetupIpAddresses(tgt, dev, mapped, k) ==
    IF k > Len(mapped) THEN [target |-> tgt, result |-> Ok]
    ELSE LET if_access == dev.ifs[mapped[k].root]
             named == IfOfMappedPlane(tgt, mapped[k].plane)
         IN IF if_access.ips = <<>>
            THEN IF if_access.enable_dhcp_client
                 THEN SetupIpAddresses(
                          [named.target EXCEPT !.dhcp_v_4_client = @ \cup {named.name}],
                          dev, mapped, k + 1)
                 ELSE SetupIpAddresses(tgt, dev, mapped, k + 1)
            ELSE LET r == SetIps(named.target, named.name, if_access.ips, 1,
                                 if_access.enable_dhcp_server)
                 IN IF r.result.kind # "Ok" THEN r
                    ELSE SetupIpAddresses(r.target, dev, mapped, k + 1)

\* setup_ospf: the interfaces of the OSPF-enabled mapped planes
UsesOspfAlways(if_access) == TRUE
\* setup_ospf, line 535: .filter(|(p, _)| p.use_ospf())
UsesOspf(if_access) == if_access.use_ospf
RECURSIVE OspfPorts(_, _, _, _)
OspfPorts(tgt, dev, mapped, k) ==
    IF k > Len(mapped) THEN [target |-> tgt, ports |-> {}]
    ELSE IF UsesOspf(dev.ifs[mapped[k].root])
    THEN LET named == IfOfMappedPlane(tgt, mapped[k].plane)
             rest == OspfPorts(named.target, dev, mapped, k + 1)
         IN [target |-> rest.target, ports |-> {named.name} \cup rest.ports]
    ELSE OspfPorts(tgt, dev, mapped, k + 1)

\* setup_ospf(device, &mapped_planes)
SetupOspf(tgt, dev, mapped) ==
    IF dev.primary_ip_v4 = None THEN tgt
    ELSE LET r == OspfPorts(tgt, dev, mapped, 1)
             instance(version) ==
                 [redistribute |-> {"Connected", "Static"},
                  router_id |-> dev.primary_ip_v4, version |-> version]
         IN IF r.ports = {} THEN r.target
            ELSE [r.target EXCEPT
                    !.ospf_instance = Put(Put(@, "default-v2", instance("2")),
                                          "default-v3", instance("3")),
                    !.ospf_area = Put(Put(@, "backbone-v2", [instance |-> "default-v2"]),
                                      "backbone-v3", [instance |-> "default-v3"]),
                    !.ospf_interface =
                        Put(Put(@, "backbone-v2", [interfaces |-> r.ports, use_bfd |-> FALSE]),
                            "backbone-v3", [interfaces |-> r.ports, use_bfd |-> FALSE])]

\* setup_vxlan(vxlan, &my_ip) for every vxlan of a set
RECURSIVE SetupVxlans(_, _, _)
SetupVxlans(tgt, dev, vxlans) ==
    IF vxlans = <<>> THEN tgt
    ELSE LET vxlan == VxlanTable[Head(vxlans)]
             name == VxlanIfName(vxlan.name)
             t1 == [tgt EXCEPT
                      !.bridge_port =
                          IF <<CAPS_BRIDGE_NAME, name>> \in DOMAIN @ THEN @
                          ELSE Put(@, <<CAPS_BRIDGE_NAME, name>>,
                                   [ingress_filtering |-> "default", pvid |-> NoTag,
                                    frame_types |-> "default"]),
                      !.bridge_vlan = @ \cup {[bridge |-> CAPS_BRIDGE_NAME, tagged |-> {name},
                                               untagged |-> {}, vlan_ids |-> 1..4094]},
                      !.vxlan = Put(@, name, [vni |-> vxlan.vni]),
                      !.vxlan_vteps =
                          @ \cup {<<name, ip>> :
                                    ip \in RemoteVteps(Vteps(dev, vxlan), dev.primary_ip_v4)}]
         IN SetupVxlans(t1, dev, Tail(vxlans))

\* the order in which the HashSet of VXLANs is enumerated
RECURSIVE VxlanSeq(_, _)
VxlanSeq(vxlans, reversed) ==
    IF vxlans = {} THEN <<>>
    ELSE LET id == IF reversed THEN CHOOSE x \in vxlans : \A y \in vxlans : y = x \/ VxlanTable[y].vni < VxlanTable[x].vni
                   ELSE CHOOSE x \in vxlans : \A y \in vxlans : y = x \/ VxlanTable[y].vni > VxlanTable[x].vni
         IN <<id>> \o VxlanSeq(vxlans \ {id}, reversed)

\* setup_wlan_ap(device)
SetupWlanAp(tgt, dev) ==
    IF dev.wlan_ap_of = None THEN tgt
    ELSE LET t1 == [tgt EXCEPT !.bridge =
                       Put(@, CAPS_BRIDGE_NAME,
                           [vlan_filtering |-> TRUE, ingress_filtering |-> None,
                            protocol_mode |-> "Mstp"])]
             wlan_group == WlanGroupTable[dev.wlan_ap_of]
             vlans == ({wlan_group.mgmt_vlan} \ {NoVlan})
                          \cup {WlanTable[w].vlan : w \in wlan_group.wlans}
             vxlans == {VlanVxlan[v] : v \in vlans \cap DOMAIN VlanVxlan}
         IN IF dev.primary_ip_v4 = None THEN t1
            ELSE SetupVxlans(t1, dev, VxlanSeq(vxlans, dev.vxlans_reversed))

\* generate_from(device) on the target tgt, start to return: the steps in
\* the order of lines 400-422, `?` ending the call at line 407 and 410
GenerateFrom(tgt, dev) ==
    LET t1 == SetIdentityAndLoopback(tgt, dev)
        planes == L2SetupNew(dev)
        r2 == SetupL2(t1, planes)
        r3 == SetupPoe(r2.target, dev, 1)
        r4 == SetupIpAddresses(r3.target, dev, r2.mapped, 1)
        t5 == SetupOspf(r4.target, dev, r2.mapped)
        t6 == SetupWlanAp(t5, dev)
    IN IF r2.result.kind # "Ok" THEN [target |-> r2.target, result |-> r2.result]
       ELSE IF r3.result.kind = "Err" THEN [target |-> r3.target, result |-> r3.result]
       ELSE IF r4.result = Panic THEN [target |-> r4.target, result |-> Panic]
       ELSE [target |-> t6, result |-> Ok]

DevIdle ==
    /\ device = NoDevice
    /\ l2 = <<>>
    /\ target = TargetNew
    /\ mapped_planes = <<>>
    /\ genPc = "idle"
    /\ genResult = NoResult
    /\ ipResult = NoResult
    /\ ran = <<>>
    /\ rendered = <<>>

\* a test calls L2Setup::new on a device
L2Init ==
    /\ device \in L2Devices
    /\ l2 = <<>>
    /\ target = TargetNew
    /\ mapped_planes = <<>>
    /\ genPc = "l2_only"
    /\ genResult = NoResult
    /\ ipResult = NoResult
    /\ ran = <<>>
    /\ rendered = <<>>

\* generate_cfg: fetch_config built the target with BaseDeviceDataTarget::new
GenInit ==
    /\ device \in GenDevices
    /\ l2 = <<>>
    /\ target = TargetNew
    /\ mapped_planes = <<>>
    /\ genPc = "start"
    /\ genResult = NoResult
    /\ ipResult = NoResult
    /\ ran = <<>>
    /\ rendered = <<>>

\* generate_cfg for a device with ports of every kind
PortInit ==
    /\ device \in PortDevices
    /\ l2 = <<>>
    /\ target = TargetNew
    /\ mapped_planes = <<>>
    /\ genPc = "start"
    /\ genResult = NoResult
    /\ ipResult = NoResult
    /\ ran = <<>>
    /\ rendered = <<>>

\* generate_cfg for a WLAN access point
WlanInit ==
    /\ device \in WlanDevices
    /\ l2 = <<>>
    /\ target = TargetNew
    /\ mapped_planes = <<>>
    /\ genPc = "start"
    /\ genResult = NoResult
    /\ ipResult = NoResult
    /\ ran = <<>>
    /\ rendered = <<>>

\* generate_cfg for a device with DHCP roles
DhcpInit ==
    /\ device \in DhcpDevices
    /\ l2 = <<>>
    /\ target = TargetNew
    /\ mapped_planes = <<>>
    /\ genPc = "start"
    /\ genResult = NoResult
    /\ ipResult = NoResult
    /\ ran = <<>>
    /\ rendered = <<>>

\* generate_cfg for a switch
SwitchInit ==
    /\ device \in SwitchDevices
    /\ l2 = <<>>
    /\ target = TargetNew
    /\ mapped_planes = <<>>
    /\ genPc = "start"
    /\ genResult = NoResult
    /\ ipResult = NoResult
    /\ ran = <<>>
    /\ rendered = <<>>

\* generate_cfg for a device with two bridges
TwoBridgeInit ==
    /\ device \in TwoBridgeDevices
    /\ l2 = <<>>
    /\ target = TargetNew
    /\ mapped_planes = <<>>
    /\ genPc = "start"
    /\ genResult = NoResult
    /\ ipResult = NoResult
    /\ ran = <<>>
    /\ rendered = <<>>

\* generate_from, lines 400-403
SetIdentity ==
    /\ genPc = "start"
    /\ target' = SetIdentityAndLoopback(target, device)
    /\ genPc' = "l2_new"
    /\ ran' = Append(ran, "set_identity")
    /\ UNCHANGED <<device, l2, mapped_planes, genResult, ipResult, rendered>>
    /\ UNCHANGED notDev

\* generate_from, line 405 (and the direct call of a test)
NewL2Setup ==
    /\ genPc \in {"l2_new", "l2_only"}
    /\ l2' = L2SetupNew(device)
    /\ genPc' = IF genPc = "l2_only" THEN "l2_done" ELSE "setup_l2"
    /\ ran' = Append(ran, "l2_setup_new")
    /\ UNCHANGED <<device, target, mapped_planes, genResult, ipResult, rendered>>
    /\ UNCHANGED notDev

\* generate_from, line 407: self.setup_l2(..)?
RunSetupL2 ==
    /\ genPc = "setup_l2"
    /\ LET r == SetupL2(target, l2)
       IN /\ target' = r.target
          /\ mapped_planes' = r.mapped
          /\ genResult' = IF r.result.kind # "Ok" THEN r.result ELSE genResult
          /\ genPc' = IF r.result.kind = "Err" THEN "returned"
                      ELSE IF r.result.kind = "Panic" THEN "panicked" ELSE "poe"
    /\ ran' = Append(ran, "setup_l2")
    /\ UNCHANGED <<device, l2, ipResult, rendered>>
    /\ UNCHANGED notDev

\* generate_from, lines 408-418
RunSetupPoe ==
    /\ genPc = "poe"
    /\ LET r == SetupPoe(target, device, 1)
       IN /\ target' = r.target
          /\ genResult' = IF r.result.kind = "Err" THEN r.result ELSE genResult
          /\ genPc' = IF r.result.kind = "Err" THEN "returned" ELSE "ip"
    /\ ran' = Append(ran, "poe")
    /\ UNCHANGED <<device, l2, mapped_planes, ipResult, rendered>>
    /\ UNCHANGED notDev

\* generate_from, line 419: self.setup_ip_addresses(&mapped_planes);
RunSetupIpAddresses ==
    /\ genPc = "ip"
    /\ LET r == SetupIpAddresses(target, device, mapped_planes, 1)
       IN /\ target' = r.target
          /\ ipResult' = r.result
          /\ genResult' = IF r.result = Panic THEN Panic ELSE genResult
          /\ genPc' = IF r.result = Panic THEN "panicked" ELSE "ospf"
    /\ ran' = Append(ran, "setup_ip_addresses")
    /\ UNCHANGED <<device, l2, mapped_planes, rendered>>
    /\ UNCHANGED notDev

\* generate_from, line 420
RunSetupOspf ==
    /\ genPc = "ospf"
    /\ target' = SetupOspf(target, device, mapped_planes)
    /\ genPc' = "wlan"
    /\ ran' = Append(ran, "setup_ospf")
    /\ UNCHANGED <<device, l2, mapped_planes, genResult, ipResult, rendered>>
    /\ UNCHANGED notDev

\* generate_from, line 421
RunSetupWlanAp ==
    /\ genPc = "wlan"
    /\ target' = SetupWlanAp(target, device)
    /\ genPc' = "return"
    /\ ran' = Append(ran, "setup_wlan_ap")
    /\ UNCHANGED <<device, l2, mapped_planes, genResult, ipResult, rendered>>
    /\ UNCHANGED notDev

\* generate_from, line 422: Ok(())
ReturnOk ==
    /\ genPc = "return"
    /\ genResult' = Ok
    /\ genPc' = "returned"
    /\ UNCHANGED <<device, l2, target, mapped_planes, ipResult, ran, rendered>>
    /\ UNCHANGED notDev

\* DeviceCfg::generate_from drops the result of base_target.generate_from;
\* generate_cfg goes on to generate_mutations, which reads base_target
GenerateMutations ==
    /\ genPc = "returned"
    /\ rendered' = <<target>>
    /\ genPc' = "rendered"
    /\ UNCHANGED <<device, l2, target, mapped_planes, genResult, ipResult, ran>>
    /\ UNCHANGED notDev

L2Next == NewL2Setup

GenNext ==
    \/ SetIdentity
    \/ NewL2Setup
    \/ RunSetupL2
    \/ RunSetupPoe
    \/ RunSetupIpAddresses
    \/ RunSetupOspf
    \/ RunSetupWlanAp
    \/ ReturnOk
    \/ GenerateMutations

(***************************************************************************)
(* Properties of the device synthesis                                      *)
(***************************************************************************)
\* the planes whose VLAN has no inventory tag: L2Setup::new gave them a tag
Synthesized == {k \in 1..Len(l2) : l2[k].vlan = NoVlan \/ VlanTagOf(l2[k].vlan) = NoTag}
InventoryTags == {l2[k].vlan_id : k \in (1..Len(l2)) \ Synthesized}

\* C3: the tags L2Setup::new synthesizes for the planes of one device are
\* pairwise distinct, all at least 60000, and differ from every inventory tag
\* carried by a plane of that device.
C3_SyntheticTagsUnique ==
    genPc = "l2_done" =>
        /\ \A j, k \in Synthesized : j # k => l2[j].vlan_id # l2[k].vlan_id
        /\ \A k \in Synthesized : l2[k].vlan_id >= SynthBase
        /\ \A k \in Synthesized : l2[k].vlan_id \notin InventoryTags

\* C3 witness: two planes lack an inventory tag (one has no VLAN, one has a
\* VLAN without record) while another plane carries the inventory tag 60000.
C3_Witness ==
    /\ genPc = "l2_done"
    /\ \E j, k \in Synthesized : l2[j].vlan = NoVlan /\ l2[k].vlan # NoVlan
    /\ SynthBase \in InventoryTags

\* the entries of the planes that belong to the port of interface i
PortEntries == UNION {{<<k, j>> : j \in 1..Len(l2[k].ports)} : k \in 1..Len(l2)}
AllEntriesFor(i, kind) ==
    {e \in PortEntries :
        /\ l2[e[1]].ports[e[2]].port = device.ifs[i].external
        /\ l2[e[1]].ports[e[2]].kind = kind}
EntriesFor(i, kind, key) ==
    {e \in AllEntriesFor(i, kind) : <<l2[e[1]].root_port, l2[e[1]].vlan>> = key}
WithPort == {i \in DevIfs : device.ifs[i].external # None}

\* one tagged entry per tagged VLAN, in the plane of that VLAN, and no other
TaggedEntriesExact(i) ==
    /\ \A v \in device.ifs[i].tagged_vlans :
          Cardinality(EntriesFor(i, "TaggedEthernet", <<RootOf(device, i), v>>)) = 1
    /\ Cardinality(AllEntriesFor(i, "TaggedEthernet")) = Cardinality(device.ifs[i].tagged_vlans)

\* C4 as stated: every interface with an external port has exactly one
\* entry for each tagged VLAN plus exactly one untagged/default entry.
C4_Original ==
    genPc = "l2_done" =>
        \A i \in WithPort :
            /\ TaggedEntriesExact(i)
            /\ Cardinality(AllEntriesFor(i, "UntaggedEthernet")) = 1

\* C4 amended: every interface with an external port has exactly one tagged
\* entry for each tagged VLAN; it has exactly one untagged entry, in the plane
\* of its untagged VLAN when it has one and in the VLAN-less plane of its
\* bridge when it has no VLAN at all; an interface with tagged VLANs only has
\* no untagged or default entry.  No such interface is dropped.
C4_PlaneCompleteness ==
    genPc = "l2_done" =>
        \A i \in WithPort :
            LET itf == device.ifs[i]
                untaggedKey == <<RootOf(device, i), itf.vlan>>
            IN /\ TaggedEntriesExact(i)
               /\ Cardinality(AllEntriesFor(i, "UntaggedEthernet")) =
                      (IF itf.vlan # NoVlan \/ itf.tagged_vlans = {} THEN 1 ELSE 0)
               /\ Cardinality(EntriesFor(i, "UntaggedEthernet", untaggedKey)) =
                      Cardinality(AllEntriesFor(i, "UntaggedEthernet"))
               /\ AllEntriesFor(i, "TaggedEthernet") \cup AllEntriesFor(i, "UntaggedEthernet") # {}

\* C4 witness: one interface is tagged in two VLANs and untagged in a third,
\* the other is tagged only.
C4_Witness ==
    /\ genPc = "l2_done"
    /\ \E i \in WithPort :
          /\ Cardinality(device.ifs[i].tagged_vlans) = 2
          /\ device.ifs[i].vlan \notin device.ifs[i].tagged_vlans \cup {NoVlan}
    /\ \E i \in WithPort :
          /\ device.ifs[i].tagged_vlans # {}
          /\ device.ifs[i].vlan = NoVlan

\* C5: when generate_from fails with a SetupError, the target the caller
\* holds is the one it held before the call, and generate_cfg renders no
\* partially synthesized target.
C5_NoPartialTarget ==
    genResult.kind = "Err" =>
        /\ target = TargetNew
        /\ rendered = <<>>

\* C6: when setup_ip_addresses fails (DHCP server requested, an address
\* without prefix or a prefix without record), generate_from returns that
\* error, and neither the OSPF step nor the WLAN-AP step is run.
C6_DhcpErrorReturned ==
    (ipResult.kind = "Err" /\ genPc \in {"returned", "rendered"}) =>
        /\ genResult = ipResult
        /\ \A k \in 1..Len(ran) : ran[k] \notin {"setup_ospf", "setup_wlan_ap"}

\* plane k is routed: its only port is untagged and in no other plane
RoutedPlane(k) ==
    /\ Len(l2[k].ports) = 1
    /\ l2[k].ports[1].kind = "UntaggedEthernet"
    /\ \A h \in (1..Len(l2)) \ {k} :
          \A j \in 1..Len(l2[h].ports) : l2[h].ports[j].name # l2[k].ports[1].name
SwitchedPlanes == {k \in 1..Len(l2) : ~RoutedPlane(k)}
UntaggedOnly(k) == \A j \in 1..Len(l2[k].ports) : l2[k].ports[j].kind = "UntaggedEthernet"
PortNames(k) == {l2[k].ports[j].name : j \in 1..Len(l2[k].ports)}
\* the entry setup_l2 pushed to mapped_planes for a plane attached to if_name
MappedTo(k, if_name) ==
    \E n \in 1..Len(mapped_planes) :
        /\ mapped_planes[n].root = l2[k].root_port
        /\ mapped_planes[n].plane.if_name = if_name
        /\ mapped_planes[n].plane.vid \in {NoTag, l2[k].vlan_id}

\* C14: after setup_l2 has returned Ok there is at most one bridge, named
\* "switch", and there is one exactly when the device has a switched plane.
\* It is non-VLAN-filtering without bridge-VLAN entries exactly when there is
\* a single switched plane whose ports are all untagged; otherwise it is one
\* VLAN-filtering bridge that has the ports of every switched plane as
\* members and carries every bridge-VLAN entry.  Without switched planes
\* there are no bridge, bridge port or bridge-VLAN entries.
C14_OneBridge ==
    (genPc = "poe" /\ genResult = NoResult) =>
        LET single == Cardinality(SwitchedPlanes) = 1 /\ \A k \in SwitchedPlanes : UntaggedOnly(k)
        IN /\ DOMAIN target.bridge \subseteq {DEFAULT_BRIDGE_NAME}
           /\ (SwitchedPlanes = {}) <=> (DOMAIN target.bridge = {})
           /\ SwitchedPlanes = {} =>
                 target.bridge_vlan = {} /\ DOMAIN target.bridge_port = {}
           /\ SwitchedPlanes # {} =>
                 /\ single <=> (/\ ~target.bridge[DEFAULT_BRIDGE_NAME].vlan_filtering
                                /\ target.bridge_vlan = {})
                 /\ ~single => target.bridge[DEFAULT_BRIDGE_NAME].vlan_filtering
                 /\ \A x \in DOMAIN target.bridge_port : x[1] = DEFAULT_BRIDGE_NAME
                 /\ \A e \in target.bridge_vlan : e.bridge = DEFAULT_BRIDGE_NAME
                 /\ \A k \in SwitchedPlanes :
                       /\ \A n \in PortNames(k) :
                             <<DEFAULT_BRIDGE_NAME, n>> \in DOMAIN target.bridge_port
                       /\ MappedTo(k, DEFAULT_BRIDGE_NAME)

\* C14 witness: two switched planes, each of two untagged ports, behind one
\* VLAN-filtering bridge.
C14_Witness ==
    /\ genPc = "poe" /\ genResult = NoResult
    /\ Cardinality(SwitchedPlanes) = 2
    /\ \A k \in SwitchedPlanes : UntaggedOnly(k) /\ Len(l2[k].ports) = 2
    /\ target.bridge[DEFAULT_BRIDGE_NAME].vlan_filtering

\* the big bridge was set up: some plane is switched and the switched planes
\* are not one all-untagged plane
BigBridge ==
    /\ SwitchedPlanes # {}
    /\ ~(Cardinality(SwitchedPlanes) = 1 /\ \A k \in SwitchedPlanes : UntaggedOnly(k))
Members == UNION {PortNames(k) : k \in SwitchedPlanes}
MemberOf(n, kind) ==
    {k \in SwitchedPlanes :
        \E j \in 1..Len(l2[k].ports) : l2[k].ports[j].name = n /\ l2[k].ports[j].kind = kind}
PlaneTags == {l2[k].vlan_id : k \in SwitchedPlanes}
MembersOfTag(vid, kind) ==
    {n \in Members : \E k \in MemberOf(n, kind) : l2[k].vlan_id = vid}

\* C15: in the big bridge the bridge ports are exactly the ports of the
\* switched planes; a port admits only VLAN-tagged frames iff it is only a
\* tagged member of planes, only untagged and priority-tagged frames iff it is
\* only an untagged member, and all frames iff it is both; a port with an
\* untagged membership has the tag of that plane as PVID; and there is exactly
\* one bridge-VLAN entry per distinct plane tag, listing exactly the tagged
\* and the untagged member ports of that tag.
C15_BigBridgePorts ==
    (genPc = "poe" /\ genResult = NoResult /\ BigBridge) =>
        /\ DOMAIN target.bridge_port = {<<DEFAULT_BRIDGE_NAME, n>> : n \in Members}
        /\ \A n \in Members :
              LET bridge_port == target.bridge_port[<<DEFAULT_BRIDGE_NAME, n>>]
                  tagged == MemberOf(n, "TaggedEthernet") # {}
                  untagged == MemberOf(n, "UntaggedEthernet") # {}
              IN /\ (bridge_port.frame_types = "AdmitOnlyVlanTagged") <=> (tagged /\ ~untagged)
                 /\ (bridge_port.frame_types = "AdmitOnlyUntaggedAndPriorityTagged")
                        <=> (untagged /\ ~tagged)
                 /\ (bridge_port.frame_types = "AdmitAll") <=> (tagged /\ untagged)
                 /\ \A k \in MemberOf(n, "UntaggedEthernet") :
                        bridge_port.pvid = l2[k].vlan_id
        /\ target.bridge_vlan =
              {[bridge |-> DEFAULT_BRIDGE_NAME,
                tagged |-> MembersOfTag(vid, "TaggedEthernet"),
                untagged |-> MembersOfTag(vid, "UntaggedEthernet"),
                vlan_ids |-> {vid}] : vid \in PlaneTags}
        /\ Cardinality(target.bridge_vlan) = Cardinality(PlaneTags)

\* C15 witness: a big bridge with a tagged-only port, an untagged-only port
\* and a port that is both, and two planes sharing one tag.
C15_Witness ==
    /\ genPc = "poe" /\ genResult = NoResult /\ BigBridge
    /\ \E n \in Members : MemberOf(n, "TaggedEthernet") # {} /\ MemberOf(n, "UntaggedEthernet") = {}
    /\ \E n \in Members : MemberOf(n, "TaggedEthernet") = {} /\ MemberOf(n, "UntaggedEthernet") # {}
    /\ \E n \in Members : MemberOf(n, "TaggedEthernet") # {} /\ MemberOf(n, "UntaggedEthernet") # {}
    /\ Cardinality(PlaneTags) < Cardinality(SwitchedPlanes)

\* the interface name if_of_mapped_plane gives the k-th mapped plane
LogicalInterface(k) == IfOfMappedPlane(target, mapped_planes[k].plane).name
\* the (plane, address index) pairs DHCP service is requested for
Served ==
    {<<k, j>> \in (1..Len(mapped_planes)) \X (1..2) :
        /\ device.ifs[mapped_planes[k].root].enable_dhcp_server
        /\ j <= Len(device.ifs[mapped_planes[k].root].ips)}
PrefixOf(s) == IpPrefixTable[IpAddressTable[device.ifs[mapped_planes[s[1]].root].ips[s[2]]].prefix]
GatewayOf(s) == IpAddressTable[device.ifs[mapped_planes[s[1]].root].ips[s[2]]].ip.addr
ServerName(s) == [dhcp |-> LogicalInterface(s[1]), idx |-> s[2] - 1]
Flagged(prefix) == {k \in 1..Len(prefix.ranges) : IpRangeTable[prefix.ranges[k]].is_dhcp}
\* the range list the pool of a prefix is to have
PoolRanges(prefix) ==
    IF Flagged(prefix) # {}
    THEN ExplicitRanges(prefix)
    ELSE CollectGaps(ReserveRanges(ReserveChildren(ReserveIps(EmptyMap, prefix.addresses, 1),
                                                   prefix.children, 1),
                                   prefix.ranges, 1),
                     SatAdd(prefix.prefix.network), SatSub(prefix.prefix.broadcast)).out
\* C16: once setup_ip_addresses has run with DHCP service requested, it has
\* returned, and when it returned Ok the pools are those of the served
\* addresses whose prefix has a non-empty range list (the DHCP-flagged ranges
\* if any, otherwise the gaps left in the host span by the ranges, child
\* prefixes and addresses of the prefix), each with these ranges, a server
\* of the same name and the network entry of the prefix.
C16_DhcpPools ==
    ("setup_ip_addresses" \in SeqRange(ran)) =>
        /\ ipResult.kind \in {"Ok", "Err"}
        /\ ipResult = Ok =>
            LET pooled == {s \in Served : PoolRanges(PrefixOf(s)) # <<>>}
            IN /\ DOMAIN target.ipv_4_pool = {ServerName(s) : s \in pooled}
               /\ DOMAIN target.dhcp_v_4_server = {ServerName(s) : s \in pooled}
               /\ DOMAIN target.dhcp_v_4_server_network = {PrefixOf(s).prefix : s \in pooled}
               /\ \A s \in pooled :
                     /\ target.ipv_4_pool[ServerName(s)] = PoolRanges(PrefixOf(s))
                     /\ target.dhcp_v_4_server[ServerName(s)].interface = LogicalInterface(s[1])
                     /\ GatewayOf(s) \in
                            target.dhcp_v_4_server_network[PrefixOf(s).prefix].gateway
\* the same, for the calls that return
C16_PoolsWhenReturned ==
    (ipResult = Ok => C16_DhcpPools)

IpStepRan == \E k \in 1..Len(ran) : ran[k] = "setup_ip_addresses"
\* the logical interface of an L2 plane: the port itself for a routed plane,
\* the bridge for the single bridge without VLAN filtering, the VLAN interface
\* of the plane's tag on the big bridge
ExpectedIf(h) ==
    IF RoutedPlane(h) THEN IfName(l2[h].ports[1].name, NoTag)
    ELSE IF BigBridge THEN IfName(DEFAULT_BRIDGE_NAME.base, l2[h].vlan_id)
    ELSE DEFAULT_BRIDGE_NAME
RootInterface(n) == device.ifs[mapped_planes[n].root]
AssignedTo(if_name) ==
    {ip \in DOMAIN target.ipv_4_address : target.ipv_4_address[ip] = if_name}
\* what the IP step leaves for the n-th mapped plane
PlaneAddressed(n) ==
    LET if_name == LogicalInterface(n)
        ips == {IpAddressTable[RootInterface(n).ips[j]].ip : j \in 1..Len(RootInterface(n).ips)}
    IN /\ ips # {} => ips \subseteq AssignedTo(if_name) /\ if_name \notin target.dhcp_v_4_client
       /\ (ips = {} /\ RootInterface(n).enable_dhcp_client) =>
              if_name \in target.dhcp_v_4_client /\ AssignedTo(if_name) = {}
       /\ (ips = {} /\ ~RootInterface(n).enable_dhcp_client) =>
              if_name \notin target.dhcp_v_4_client /\ AssignedTo(if_name) = {}
\* the mapped planes are the L2 planes, each on its logical interface
PlanesMapped ==
    /\ Len(mapped_planes) = Len(l2)
    /\ \A h \in 1..Len(l2) :
          \E n \in 1..Len(mapped_planes) :
              mapped_planes[n].root = l2[h].root_port /\ LogicalInterface(n) = ExpectedIf(h)
\* C17: once setup_ip_addresses has run, every L2 plane is mapped to its
\* logical interface, and for every mapped plane: the addresses of its root
\* interface are all assigned to that interface and it has no DHCP client;
\* or it has no address, DHCP client is requested and the client is enabled
\* on that interface; or neither exists.
C17_AddressOrClient ==
    (IpStepRan /\ genResult.kind # "Err") =>
        /\ PlanesMapped
        /\ \A n \in 1..Len(mapped_planes) : PlaneAddressed(n)
\* the same for the planes that are the last of their root interface, when
\* the step returned Ok
LastOfRoot(n) == \A x \in (n + 1)..Len(mapped_planes) : mapped_planes[x].root # mapped_planes[n].root
C17_LastPlaneAddressed ==
    (IpStepRan /\ ipResult = Ok) =>
        /\ PlanesMapped
        /\ \A n \in 1..Len(mapped_planes) : LastOfRoot(n) => PlaneAddressed(n)

OspfRan == "setup_ospf" \in SeqRange(ran)
OspfPlanes == {n \in 1..Len(mapped_planes) : RootInterface(n).use_ospf}
OspfEntries ==
    DOMAIN target.ospf_instance \cup DOMAIN target.ospf_area \cup DOMAIN target.ospf_interface
\* C18: once setup_ospf has run, OSPF entries exist iff the device has a
\* primary IPv4 and some mapped plane has an OSPF-enabled root interface; then
\* the instances are exactly default-v2 (version 2) and default-v3 (version
\* 3) with the primary IPv4 as router id, the areas exactly backbone-v2 and
\* backbone-v3 on these instances, and the two interface templates both list
\* exactly the logical interfaces of the OSPF-enabled mapped planes;
\* otherwise there is no instance, area or interface template.
C18_OspfEmitted ==
    OspfRan =>
        IF device.primary_ip_v4 # None /\ OspfPlanes # {}
        THEN /\ DOMAIN target.ospf_instance = {"default-v2", "default-v3"}
             /\ target.ospf_instance["default-v2"].version = "2"
             /\ target.ospf_instance["default-v3"].version = "3"
             /\ \A i \in DOMAIN target.ospf_instance :
                   /\ target.ospf_instance[i].router_id = device.primary_ip_v4
                   /\ target.ospf_instance[i].redistribute = {"Connected", "Static"}
             /\ DOMAIN target.ospf_area = {"backbone-v2", "backbone-v3"}
             /\ target.ospf_area["backbone-v2"].instance = "default-v2"
             /\ target.ospf_area["backbone-v3"].instance = "default-v3"
             /\ DOMAIN target.ospf_interface = {"backbone-v2", "backbone-v3"}
             /\ \A a \in DOMAIN target.ospf_interface :
                   target.ospf_interface[a].interfaces = {LogicalInterface(n) : n \in OspfPlanes}
        ELSE OspfEntries = {}

\* C18 witness: OSPF was emitted for a device with two mapped planes of which
\* one is OSPF-enabled.
C18_Witness ==
    /\ OspfRan /\ OspfEntries # {}
    /\ Len(mapped_planes) = 2
    /\ Cardinality(OspfPlanes) = 1
\* C18 witness of the other side: a primary IPv4 but no OSPF-enabled plane
C18_NoOspfReached ==
    OspfRan /\ device.primary_ip_v4 # None /\ mapped_planes # <<>> /\ OspfEntries = {}



\* the orders in which the interfaces of the device may be enumerated
Orders == IF DOMAIN device.ifs = DevIfs THEN IfOrders ELSE SwitchOrders
\* the same device with its interfaces enumerated in the order o
Reordered(o) == [device EXCEPT !.order = o]

\* C13: generate_from on a fresh target for the same hardware and the same
\* device leaves the same resource sets and returns the same result, whatever
\* order the interfaces of the device are enumerated in.
C13_OrderIndependent ==
    genPc = "returned" =>
        \A o \in Orders :
            LET again == GenerateFrom(TargetNew, Reordered(o))
            IN again.target = target /\ again.result = genResult

\* the run of the step actions and the composed call agree
GenerateFromAgrees ==
    genPc = "returned" =>
        LET again == GenerateFrom(TargetNew, device)
        IN again.target = target /\ again.result = genResult

\* runs that return Ok leave the same resource sets in every order
OkOrderIndependent ==
    (genPc = "returned" /\ genResult = Ok) =>
        \A o \in Orders : GenerateFrom(TargetNew, Reordered(o)).target = target

(***************************************************************************)
(* Address inventory: build_topology and TopologyBuilder::build            *)
(***************************************************************************)
\* Number of address bits (plays 32): prefix lengths are 0..MaxPrefixLen.
MaxPrefixLen == 2

\* IpNet: an address and a prefix length; host bits are kept as parsed
IpNets == [addr : 0..(2 ^ MaxPrefixLen - 1), len : 0..MaxPrefixLen]
NoNet == [addr |-> 0, len |-> -1]
\* IpNet::trunc
Trunc(net) == [addr |-> net.addr - (net.addr % (2 ^ (MaxPrefixLen - net.len))), len |-> net.len]
\* IpNet::supernet: one bit shorter and truncated, None for length 0
Supernet(net) == IF net.len = 0 THEN NoNet ELSE Trunc([addr |-> net.addr, len |-> net.len - 1])
\* IpNet::contains between two networks
NetContains(outer, inner) ==
    /\ outer.len <= inner.len
    /\ Trunc([addr |-> inner.addr, len |-> outer.len]) = Trunc(outer)
Networks == {n \in IpNets : Trunc(n) = n}

NoParent == 0
EmptyIndex == [x \in {} |-> {}]
NewPrefix(prefix) ==
    [prefix |-> prefix, parent |-> NoParent, children |-> {}, ranges |-> {}, addresses |-> {}]
\* .entry(id).or_insert(Vec::new()).push(x)
Push(m, id, x) == [k \in DOMAIN m \cup {id} |-> IF k = id
                                                   THEN (IF id \in DOMAIN m THEN m[id] ELSE {}) \cup {x}
                                                   ELSE m[k]]
\* .remove(id).unwrap_or_default()
Taken(m, id) == IF id \in DOMAIN m THEN m[id] ELSE {}

\* the two builds run the same loops in different order
StepAfter(mode, step) ==
    IF mode = "fetch"
    THEN CASE step = "index" -> "parents"
           [] step = "parents" -> "ranges"
           [] step = "ranges" -> "addresses"
           [] step = "addresses" -> "fill"
           [] OTHER -> "built"
    ELSE CASE step = "index" -> "ranges"
           [] step = "ranges" -> "addresses"
           [] step = "addresses" -> "parents"
           [] step = "parents" -> "fill"
           [] OTHER -> "built"

IpamBlank ==
    /\ prefix_idx = EmptyIndex
    /\ ip_prefixes = EmptyIndex
    /\ ip_ranges = EmptyIndex
    /\ ip_addresses = EmptyIndex
    /\ children_prefix = EmptyIndex
    /\ ranges_of_prefix = EmptyIndex
    /\ ip_addresses_of_prefix = EmptyIndex

IpamIdle ==
    /\ buildMode = "idle"
    /\ prefix_list = <<>>
    /\ ip_range_list = <<>>
    /\ ip_address_list = <<>>
    /\ IpamBlank
    /\ buildPc = "idle"

\* an inventory of three prefixes
TreeInit ==
    /\ buildMode \in {"fetch", "builder"}
    /\ prefix_list \in [1..3 -> Networks]
    /\ ip_range_list = <<>>
    /\ ip_address_list = <<>>
    /\ IpamBlank
    /\ buildPc = "index"

\* an inventory of one prefix, at most one range and at most one address
RangeLists ==
    {<<>>} \cup {<<[is_dhcp |-> TRUE, start |-> [addr |-> a, len |-> l],
                    end |-> [addr |-> b, len |-> l]]>> :
                    <<a, b, l>> \in {x \in (0..(2 ^ MaxPrefixLen - 1)) \X (0..(2 ^ MaxPrefixLen - 1))
                                            \X (0..MaxPrefixLen) : x[1] <= x[2]}}
RangeInit ==
    /\ buildMode \in {"fetch", "builder"}
    /\ prefix_list \in [1..1 -> Networks]
    /\ ip_range_list \in RangeLists
    /\ ip_address_list \in {<<>>, <<[addr |-> 1, len |-> MaxPrefixLen - 1]>>}
    /\ IpamBlank
    /\ buildPc = "index"

\* the start address truncated: the key the index is to be asked with
RangeKeyTruncated(start_addr) == Trunc(start_addr)
\* fetch.rs line 666: prefix_idx.get(&start_addr)
RangeKey(start_addr) == start_addr

\* fetch.rs lines 616-633: every later prefix of the same network replaces
\* the index entry of an earlier one; test.rs lines 143-146: the entries are
\* inserted in the order of the HashMap
IndexPrefixes ==
    /\ buildPc = "index"
    /\ \E idx \in [{prefix_list[i] : i \in DOMAIN prefix_list} -> DOMAIN prefix_list] :
          /\ \A n \in DOMAIN idx : prefix_list[idx[n]] = n
          /\ buildMode = "fetch" =>
                \A n \in DOMAIN idx : \A i \in DOMAIN prefix_list :
                    prefix_list[i] = n => i <= idx[n]
          /\ prefix_idx' = idx
    /\ ip_prefixes' = [i \in DOMAIN prefix_list |-> NewPrefix(prefix_list[i])]
    /\ buildPc' = StepAfter(buildMode, "index")
    /\ UNCHANGED <<buildMode, prefix_list, ip_range_list, ip_address_list, ip_ranges,
                   ip_addresses, children_prefix, ranges_of_prefix, ip_addresses_of_prefix>>
    /\ UNCHANGED notIpam

\* the first supernet only
FindParentOneStep(idx, prefix) ==
    LET net_address == Supernet(prefix)
    IN IF net_address = NoNet THEN NoParent
       ELSE IF net_address \in DOMAIN idx THEN idx[net_address]
       ELSE NoParent

\* the loop `while let Some(net_address) = prefix.supernet()`
RECURSIVE FindParent(_, _)
FindParent(idx, prefix) ==
    LET net_address == Supernet(prefix)
    IN IF net_address = NoNet THEN NoParent
       ELSE IF net_address \in DOMAIN idx THEN idx[net_address]
       ELSE FindParent(idx, net_address)
\* fetch.rs lines 634-648, test.rs lines 204-218
LinkParents ==
    /\ buildPc = "parents"
    /\ LET parent == [i \in DOMAIN ip_prefixes |-> FindParent(prefix_idx, ip_prefixes[i].prefix)]
       IN /\ ip_prefixes' = [i \in DOMAIN ip_prefixes |->
                                [ip_prefixes[i] EXCEPT !.parent = parent[i]]]
          /\ children_prefix' =
                [q \in {parent[i] : i \in DOMAIN ip_prefixes} \ {NoParent} |->
                    {i \in DOMAIN ip_prefixes : parent[i] = q}]
    /\ buildPc' = StepAfter(buildMode, "parents")
    /\ UNCHANGED <<buildMode, prefix_list, ip_range_list, ip_address_list, prefix_idx,
                   ip_ranges, ip_addresses, ranges_of_prefix, ip_addresses_of_prefix>>
    /\ UNCHANGED notIpam

\* fetch.rs lines 650-695 for the range list (one range at most)
FetchRanges ==
    IF ip_range_list = <<>> \/ Trunc(ip_range_list[1].start) # Trunc(ip_range_list[1].end)
    THEN [ranges |-> EmptyIndex, of_prefix |-> EmptyIndex, idx |-> prefix_idx,
          prefixes |-> ip_prefixes]
    ELSE LET start_addr == ip_range_list[1].start
             key == RangeKey(start_addr)
             prefix == IF key \in DOMAIN prefix_idx THEN prefix_idx[key] ELSE NoParent
         IN [ranges |-> (1 :> [is_dhcp |-> ip_range_list[1].is_dhcp,
                               net |-> Trunc(start_addr), start |-> start_addr.addr,
                               end |-> ip_range_list[1].end.addr, prefix |-> prefix]),
             of_prefix |-> IF prefix = NoParent THEN EmptyIndex ELSE Push(EmptyIndex, prefix, 1),
             idx |-> prefix_idx, prefixes |-> ip_prefixes]
\* test.rs lines 148-177: the range is given with its net; a prefix is made
\* for a net the index does not know
BuilderRanges ==
    IF ip_range_list = <<>>
    THEN [ranges |-> EmptyIndex, of_prefix |-> EmptyIndex, idx |-> prefix_idx,
          prefixes |-> ip_prefixes]
    ELSE LET net == Trunc(ip_range_list[1].start)
             known == net \in DOMAIN prefix_idx
             prefix_id == IF known THEN prefix_idx[net] ELSE Len(prefix_list) + 1
         IN [ranges |-> (1 :> [is_dhcp |-> ip_range_list[1].is_dhcp,
                               net |-> net, start |-> ip_range_list[1].start.addr,
                               end |-> ip_range_list[1].end.addr, prefix |-> NoParent]),
             of_prefix |-> Push(EmptyIndex, prefix_id, 1),
             idx |-> IF known THEN prefix_idx ELSE (net :> prefix_id) @@ prefix_idx,
             prefixes |-> IF known THEN ip_prefixes
                          ELSE (prefix_id :> NewPrefix(net)) @@ ip_prefixes]
AttachRanges ==
    /\ buildPc = "ranges"
    /\ LET r == IF buildMode = "fetch" THEN FetchRanges ELSE BuilderRanges
       IN /\ ip_ranges' = r.ranges
          /\ ranges_of_prefix' = r.of_prefix
          /\ prefix_idx' = r.idx
          /\ ip_prefixes' = r.prefixes
    /\ buildPc' = StepAfter(buildMode, "ranges")
    /\ UNCHANGED <<buildMode, prefix_list, ip_range_list, ip_address_list,
                   ip_addresses, children_prefix, ip_addresses_of_prefix>>
    /\ UNCHANGED notIpam

\* fetch.rs lines 697-720, test.rs lines 178-202 (one address at most)
AttachAddresses ==
    /\ buildPc = "addresses"
    /\ IF ip_address_list = <<>>
       THEN /\ ip_addresses' = EmptyIndex
            /\ ip_addresses_of_prefix' = EmptyIndex
            /\ UNCHANGED <<prefix_idx, ip_prefixes>>
       ELSE LET ip == ip_address_list[1]
                net == Trunc(ip)
                known == net \in DOMAIN prefix_idx
                made == buildMode = "builder" /\ ~known
                prefix_id == IF known THEN prefix_idx[net]
                             ELSE IF made THEN SetMax(DOMAIN ip_prefixes \cup {0}) + 1
                             ELSE NoParent
            IN /\ ip_addresses' = (1 :> [ip |-> ip,
                                         prefix |-> IF buildMode = "fetch" THEN prefix_id
                                                    ELSE NoParent])
               /\ ip_addresses_of_prefix' =
                     IF prefix_id = NoParent THEN EmptyIndex ELSE Push(EmptyIndex, prefix_id, 1)
               /\ prefix_idx' = IF made THEN (net :> prefix_id) @@ prefix_idx ELSE prefix_idx
               /\ ip_prefixes' = IF made THEN (prefix_id :> NewPrefix(net)) @@ ip_prefixes
                                 ELSE ip_prefixes
    /\ buildPc' = StepAfter(buildMode, "addresses")
    /\ UNCHANGED <<buildMode, prefix_list, ip_range_list, ip_address_list, ip_ranges,
                   children_prefix, ranges_of_prefix>>
    /\ UNCHANGED notIpam

\* fetch.rs lines 722-735, test.rs lines 219-232
FillPrefixes ==
    /\ buildPc = "fill"
    /\ ip_prefixes' =
          [i \in DOMAIN ip_prefixes |->
              [ip_prefixes[i] EXCEPT !.children = Taken(children_prefix, i),
                                     !.ranges = Taken(ranges_of_prefix, i),
                                     !.addresses = Taken(ip_addresses_of_prefix, i)]]
    /\ children_prefix' = EmptyIndex
    /\ ranges_of_prefix' = EmptyIndex
    /\ ip_addresses_of_prefix' = EmptyIndex
    /\ buildPc' = StepAfter(buildMode, "fill")
    /\ UNCHANGED <<buildMode, prefix_list, ip_range_list, ip_address_list, prefix_idx,
                   ip_ranges, ip_addresses>>
    /\ UNCHANGED notIpam

IpamNext ==
    \/ IndexPrefixes
    \/ LinkParents
    \/ AttachRanges
    \/ AttachAddresses
    \/ FillPrefixes

(***************************************************************************)
(* Specifications                                                          *)
(***************************************************************************)
\* each specification starts one component and leaves the others at rest
GapStart == GapInit /\ TopoIdle /\ CableIdle /\ DevIdle /\ IpamIdle
TopoStart == TopoInit /\ GapIdle /\ CableIdle /\ DevIdle /\ IpamIdle
CableStart == CableInit /\ GapIdle /\ TopoIdle /\ DevIdle /\ IpamIdle
L2Start == L2Init /\ GapIdle /\ TopoIdle /\ CableIdle /\ IpamIdle
GenStart == GenInit /\ GapIdle /\ TopoIdle /\ CableIdle /\ IpamIdle
SwitchStart == SwitchInit /\ GapIdle /\ TopoIdle /\ CableIdle /\ IpamIdle
DhcpStart == DhcpInit /\ GapIdle /\ TopoIdle /\ CableIdle /\ IpamIdle
WlanStart == WlanInit /\ GapIdle /\ TopoIdle /\ CableIdle /\ IpamIdle
PortStart == PortInit /\ GapIdle /\ TopoIdle /\ CableIdle /\ IpamIdle
TwoBridgeStart == TwoBridgeInit /\ GapIdle /\ TopoIdle /\ CableIdle /\ IpamIdle
TreeStart == TreeInit /\ GapIdle /\ TopoIdle /\ CableIdle /\ DevIdle
RangeStart == RangeInit /\ GapIdle /\ TopoIdle /\ CableIdle /\ DevIdle

SpecGap == GapStart /\ [][GapNext]_vars
SpecGapV4 == GapStart /\ [][GapV4Next]_vars
SpecTopo == TopoStart /\ [][TopoNext]_vars
SpecCable == CableStart /\ [][CableNext]_vars
SpecL2 == L2Start /\ [][L2Next]_vars
SpecGen == GenStart /\ [][GenNext]_vars
SpecSwitch == SwitchStart /\ [][GenNext]_vars
SpecDhcp == DhcpStart /\ [][GenNext]_vars
SpecWlan == WlanStart /\ [][GenNext]_vars
SpecPorts == PortStart /\ [][GenNext]_vars
SpecTwoBridge == TwoBridgeStart /\ [][GenNext]_vars
SpecTree == TreeStart /\ [][IpamNext]_vars
SpecRanges == RangeStart /\ [][IpamNext]_vars

WlanApRan == "setup_wlan_ap" \in SeqRange(ran)
\* the VXLANs backing the management VLAN or a WLAN's VLAN of the group
GroupVxlans ==
    IF device.wlan_ap_of = None THEN {}
    ELSE LET wlan_group == WlanGroupTable[device.wlan_ap_of]
             vlans == {wlan_group.mgmt_vlan} \cup {WlanTable[w].vlan : w \in wlan_group.wlans}
         IN {VlanVxlan[v] : v \in vlans \cap DOMAIN VlanVxlan}
\* the devices participating in a VXLAN
Participants(x) ==
    VxlanTable[x].interface_terminations
        \cup {d \in {"sw1", "ap2", "ap3", "ctl", "far"} :
                \E w \in DOMAIN WlanTable :
                    /\ WlanTable[w].vlan \in VxlanTable[x].vlan_terminations
                    /\ \/ d \in WlanGroupTable[WlanTable[w].wlan_group].aps
                       \/ d = WlanGroupTable[WlanTable[w].wlan_group].controller}
OtherIps(x) == {PrimaryIpV4(device, d) : d \in Participants(x) \ {device.name}} \ {None}
EmittedVteps(x) == {e[2] : e \in {v \in target.vxlan_vteps : v[1] = VxlanIfName(VxlanTable[x].name)}}
\* C19: once setup_wlan_ap has run for an access point with a primary IPv4,
\* the VTEP entries of the interface of every VXLAN of its group are exactly
\* the primary IPv4 addresses of the other participating devices.
C19_VtepsAreOthers ==
    (WlanApRan /\ device.primary_ip_v4 # None) =>
        \A x \in GroupVxlans : EmittedVteps(x) = OtherIps(x)
\* the same when the VXLANs of the group have interface names of their own
DistinctNames ==
    \A x, y \in GroupVxlans : x # y => VxlanIfName(VxlanTable[x].name) # VxlanIfName(VxlanTable[y].name)
C19_VtepsOfDistinctNames ==
    (WlanApRan /\ device.primary_ip_v4 # None /\ DistinctNames) =>
        /\ \A x \in GroupVxlans : EmittedVteps(x) = OtherIps(x)
        /\ {e[1] : e \in target.vxlan_vteps} \subseteq {VxlanIfName(VxlanTable[x].name) : x \in GroupVxlans}
\* the own primary IPv4 is never a VTEP
C19_OwnIpNeverVtep ==
    \A e \in target.vxlan_vteps : e[2] # device.primary_ip_v4
C19_DistinctReached ==
    WlanApRan /\ device.primary_ip_v4 # None /\ DistinctNames /\ Cardinality(GroupVxlans) = 2
        /\ \E x \in GroupVxlans : "sw1" \in Participants(x) /\ Cardinality(EmittedVteps(x)) = 2

\* the external ports of the interfaces of the device
ExternalPorts == {device.ifs[i].external : i \in DOMAIN device.ifs} \ {None}
\* the ethernet and SFP+ ports named that the hardware does not have
MissingPorts == ExternalPorts \cap {"E8", "E9", "S9"}
Returned == genPc \in {"returned", "rendered"}
\* C20 as stated: generate_from returns PortNotFound(p) for every ethernet
\* or SFP+ port p an interface names and the hardware does not have, and for
\* no other port.
C20_PortNotFoundForEach ==
    Returned =>
        /\ \A p \in MissingPorts : genResult = Err("PortNotFound", p)
        /\ genResult.error = "PortNotFound" => genResult.arg \in MissingPorts
\* C20: generate_from returns PortNotFound exactly when an interface names an
\* ethernet or SFP+ port the hardware does not have, and the port reported is
\* one of these; a port of the hardware or a wifi, wlan or loopback port is
\* never reported.
C20_PortNotFound ==
    Returned =>
        /\ (MissingPorts # {}) <=> (genResult.kind = "Err" /\ genResult.error = "PortNotFound")
        /\ genResult.error = "PortNotFound" => genResult.arg \in MissingPorts
        /\ Cardinality(MissingPorts) = 1 =>
              \A p \in MissingPorts : genResult = Err("PortNotFound", p)
\* C20 witness: PortNotFound(SfpSfpPlus(9)) returned for a device that also
\* names a port of the hardware.
C20_Witness ==
    /\ Returned /\ genResult = Err("PortNotFound", "S9")
    /\ "E2" \in ExternalPorts
\* a wifi port next to an ethernet port of the hardware: Ok
C20_WifiAccepted ==
    Returned /\ genResult = Ok /\ ExternalPorts = {"W1", "E2"}

(***************************************************************************)
(* Properties of the address inventory                                     *)
(***************************************************************************)
Built == buildPc = "built"
\* the prefix of the index that equals the network of range r, NoParent if unknown
KnownPrefixOf(r) ==
    IF ip_ranges[r].net \in DOMAIN prefix_idx THEN prefix_idx[ip_ranges[r].net] ELSE NoParent
RangeAttached(r) ==
    /\ buildMode = "fetch" => ip_ranges[r].prefix = KnownPrefixOf(r)
    /\ r \in ip_prefixes[KnownPrefixOf(r)].ranges

\* C23: once the inventory is built, every range whose start and end lie in
\* the same network N with a known prefix equal to N has that prefix as its
\* prefix and is listed in the ranges of that prefix, at whatever host
\* address the range starts.
C23_RangeAttached ==
    Built => \A r \in DOMAIN ip_ranges : KnownPrefixOf(r) # NoParent => RangeAttached(r)

\* C23, the part that holds: a range that starts at the network address of N
\* is attached to the prefix equal to N.
C23_AttachedAtNetworkAddress ==
    Built => \A r \in DOMAIN ip_ranges :
        (KnownPrefixOf(r) # NoParent /\ ip_ranges[r].start = ip_ranges[r].net.addr)
            => RangeAttached(r)
C23_NetworkStartReached ==
    /\ Built /\ buildMode = "fetch"
    /\ \E r \in DOMAIN ip_ranges :
          KnownPrefixOf(r) # NoParent /\ ip_ranges[r].start = ip_ranges[r].net.addr

\* q strictly contains i: a shorter mask and the same leading bits
StrictlyContains(q, i) ==
    /\ ip_prefixes[q].prefix.len < ip_prefixes[i].prefix.len
    /\ NetContains(ip_prefixes[q].prefix, ip_prefixes[i].prefix)
Enclosing(i) == {q \in DOMAIN ip_prefixes : StrictlyContains(q, i)}
TightestEnclosing(i) ==
    {q \in Enclosing(i) : \A o \in Enclosing(i) : ip_prefixes[o].prefix.len <= ip_prefixes[q].prefix.len}
\* the prefixes met by following the parent links from i, at most fuel of them
RECURSIVE ParentPath(_, _)
ParentPath(i, fuel) ==
    IF i = NoParent \/ fuel = 0 THEN <<>>
    ELSE <<i>> \o ParentPath(ip_prefixes[i].parent, fuel - 1)
NeverRevisits(i) ==
    LET path == ParentPath(i, Cardinality(DOMAIN ip_prefixes) + 1)
    IN \A a, b \in DOMAIN path : a # b => path[a] # path[b]

\* C29: in a built topology the parent of each prefix is a known prefix that
\* strictly contains it with the longest mask (none when no known prefix
\* contains it), the children of q are exactly the prefixes whose parent is
\* q, and the parent links from a prefix never come back to a prefix.
C29_PrefixTree ==
    Built => \A i \in DOMAIN ip_prefixes :
        /\ IF Enclosing(i) = {} THEN ip_prefixes[i].parent = NoParent
           ELSE ip_prefixes[i].parent \in TightestEnclosing(i)
        /\ ip_prefixes[i].children = {c \in DOMAIN ip_prefixes : ip_prefixes[c].parent = i}
        /\ NeverRevisits(i)
\* a prefix whose parent is two bits shorter, the level between being unknown,
\* and a prefix without a parent
C29_Witness ==
    /\ Built
    /\ \E i \in DOMAIN ip_prefixes :
          /\ ip_prefixes[i].parent # NoParent
          /\ ip_prefixes[ip_prefixes[i].parent].prefix.len + 1 < ip_prefixes[i].prefix.len
          /\ i \in ip_prefixes[ip_prefixes[i].parent].children
    /\ \E i \in DOMAIN ip_prefixes : ip_prefixes[i].parent = NoParent
\* two prefixes of the same network (two VRFs) above a third
C29_SameNetworkTwice ==
    /\ Built
    /\ \E i, j, c \in DOMAIN ip_prefixes :
          /\ i # j /\ ip_prefixes[i].prefix = ip_prefixes[j].prefix
          /\ ip_prefixes[c].parent = j

(***************************************************************************)
(* Gap finder: the host window of small networks                           *)
(***************************************************************************)
FindGapsRan == gapPhase # "building" /\ gapNet \in Nets /\ gapWindow = HostWindow(gapNet)
NetSize(n) == n.broadcast - n.network + 1

\* C26: find_gaps_ipv4(N) does not panic and yields only ranges inside N, for
\* every prefix length and every set of reservations, the networks of one and
\* two addresses (/32, /31) included.
C26_NoPanicInsideNet ==
    FindGapsRan =>
        /\ gapPhase # "panicked"
        /\ \A i \in 1..Len(gapsOut) :
              gapNet.network <= gapsOut[i][1] /\ gapsOut[i][2] <= gapNet.broadcast

\* C26, the part that holds: networks of four addresses and more
C26_NoPanicFromFourAddresses ==
    (FindGapsRan /\ NetSize(gapNet) >= 4) =>
        /\ gapPhase # "panicked"
        /\ \A i \in 1..Len(gapsOut) :
              gapNet.network <= gapsOut[i][1] /\ gapsOut[i][2] <= gapNet.broadcast
\* and the small networks as long as nothing is reserved
C26_SmallNetNothingReserved ==
    (FindGapsRan /\ NetSize(gapNet) <= 2 /\ DOMAIN reserved_chunks = {}) =>
        gapPhase = "collected" /\ gapsOut = <<>>
C26_SmallNetReached ==
    FindGapsRan /\ NetSize(gapNet) = 1 /\ DOMAIN reserved_chunks = {} /\ gapPhase = "collected"

(***************************************************************************)
(* Properties of setup_l2: routed and switched planes                      *)
(***************************************************************************)
L2Done == genPc = "poe" /\ genResult = NoResult
\* the entries of mapped_planes for a plane with this root and interface
MappedEntries(root, kind, if_name, vid) ==
    {n \in 1..Len(mapped_planes) : mapped_planes[n] = Mapped(root, kind, if_name, vid)}
\* the port name is in no bridge-port and no bridge-VLAN entry
Unbridged(name) ==
    /\ \A x \in DOMAIN target.bridge_port : x[2] # name
    /\ \A e \in target.bridge_vlan : name \notin e.tagged \cup e.untagged

\* C28: after setup_l2, a plane whose only port is one untagged ethernet port
\* that is in no other plane is mapped to that port itself and has no
\* bridge-port or bridge-VLAN entry (and no bridge exists when every plane is
\* such a plane); every other plane is mapped to the bridge and its ports are
\* bridge ports.
C28_RoutedPlaneDirect ==
    L2Done =>
        /\ Len(mapped_planes) = Len(l2)
        /\ \A k \in 1..Len(l2) :
              IF RoutedPlane(k)
              THEN /\ MappedEntries(l2[k].root_port, "Untagged",
                                    IfName(l2[k].ports[1].name, NoTag), NoTag) # {}
                   /\ Unbridged(l2[k].ports[1].name)
              ELSE /\ \/ MappedEntries(l2[k].root_port, "Tagged", DEFAULT_BRIDGE_NAME,
                                        l2[k].vlan_id) # {}
                      \/ MappedEntries(l2[k].root_port, "Untagged", DEFAULT_BRIDGE_NAME,
                                        NoTag) # {}
                   /\ \A n \in PortNames(k) :
                         <<DEFAULT_BRIDGE_NAME, n>> \in DOMAIN target.bridge_port
        /\ (\A k \in 1..Len(l2) : RoutedPlane(k)) => DOMAIN target.bridge = {}
\* a routed plane next to a plane of one untagged port that is also a tagged
\* port of another plane
C28_Witness ==
    /\ L2Done
    /\ \E k \in 1..Len(l2) : RoutedPlane(k)
    /\ \E k \in SwitchedPlanes : Len(l2[k].ports) = 1 /\ UntaggedOnly(k)

\* the (bridge, tag) pair setup_big_bridge maps a switched plane to
BridgeTagOf(k) ==
    LET n == CHOOSE n \in 1..Len(mapped_planes) :
                 \E routed \in 0..Len(l2) :
                     /\ Cardinality({h \in 1..Len(l2) : RoutedPlane(h)}) = routed
                     /\ n = routed + Cardinality({h \in SwitchedPlanes : h <= k})
    IN <<mapped_planes[n].plane.if_name, mapped_planes[n].plane.vid>>
\* the bridge-VLAN entries that list a port of plane k
BridgeVlansOf(k) ==
    {e \in target.bridge_vlan : PortNames(k) \cap (e.tagged \cup e.untagged) # {}}

\* C25: in the big bridge two different switched planes have different
\* (bridge, tag) pairs, hence different VLAN interfaces and bridge-VLAN
\* entries: the ports of two planes are never in one bridge-VLAN entry, also
\* when one inventory VLAN is used under two bridges of the device.
C25_PlanesKeptApart ==
    (L2Done /\ BigBridge) =>
        \A k, h \in SwitchedPlanes : k # h =>
            /\ BridgeTagOf(k) # BridgeTagOf(h)
            /\ IfOfMappedPlane(target, [kind |-> "Tagged", if_name |-> BridgeTagOf(k)[1],
                                        vid |-> BridgeTagOf(k)[2]]).name
                 # IfOfMappedPlane(target, [kind |-> "Tagged", if_name |-> BridgeTagOf(h)[1],
                                           vid |-> BridgeTagOf(h)[2]]).name
            /\ \A e \in target.bridge_vlan :
                  e.vlan_ids = {l2[k].vlan_id} => e.vlan_ids # {l2[h].vlan_id}

\* C25, the part that holds: a plane whose tag L2Setup::new made up shares
\* its pair with no other plane, and planes of one bridge whose inventory
\* VLANs have different tags are kept apart.
C25_ApartWhenTagsDiffer ==
    (L2Done /\ BigBridge) =>
        \A k, h \in SwitchedPlanes :
            (k # h /\ (k \in Synthesized \/ VlanTagOf(l2[k].vlan) # VlanTagOf(l2[h].vlan))) =>
                /\ BridgeTagOf(k) # BridgeTagOf(h)
                /\ \A e \in target.bridge_vlan :
                      e.vlan_ids = {l2[k].vlan_id} => e.vlan_ids # {l2[h].vlan_id}
\* one inventory VLAN as a switched plane under each of the two bridges
C25_SameVlanTwoBridges ==
    /\ L2Done /\ BigBridge
    /\ \E k, h \in SwitchedPlanes :
          /\ l2[k].root_port # l2[h].root_port
          /\ l2[k].vlan = l2[h].vlan /\ l2[k].vlan # NoVlan

\* setup_l2 has been called
SetupL2Ran == \E k \in 1..Len(ran) : ran[k] = "setup_l2"
\* setup_l2 took setup_single_switch_without_vlan: the bridge does not filter
SingleSwitchTaken ==
    /\ DEFAULT_BRIDGE_NAME \in DOMAIN target.bridge
    /\ ~target.bridge[DEFAULT_BRIDGE_NAME].vlan_filtering

\* C30: for every L2Setup of L2Setup::new, setup_l2 reaches no panic and no
\* todo: no plane has a VxLan or Caps port, and the plane handed to
\* setup_single_switch_without_vlan has untagged ethernet ports only.
C30_SetupL2NeverPanics ==
    /\ \A k \in 1..Len(l2) : \A j \in 1..Len(l2[k].ports) : l2[k].ports[j].kind \in EthernetKinds
    /\ SetupL2Ran =>
          /\ genResult \notin {Todo, Contradiction}
          /\ (ran[Len(ran)] = "setup_l2") => genPc # "panicked"
          /\ SingleSwitchTaken =>
                /\ Cardinality(SwitchedPlanes) = 1
                /\ \A k \in SwitchedPlanes : UntaggedOnly(k)
\* setup_single_switch_without_vlan ran on a plane of several untagged ports
\* while another plane is routed
C30_Witness ==
    /\ L2Done /\ SingleSwitchTaken
    /\ \E k \in SwitchedPlanes : Len(l2[k].ports) >= 2
    /\ \E k \in 1..Len(l2) : RoutedPlane(k)
\* setup_l2 with a single switched plane that has a tagged port
C30_TaggedSinglePlane ==
    /\ L2Done
    /\ Cardinality(SwitchedPlanes) = 1
    /\ \E k \in SwitchedPlanes : ~UntaggedOnly(k)
====
